---- MODULE Spec2Model ----
(***************************************************************************)
(* Sideband: RPC correlation engine (packages/runtime/src/correlation.ts), *)
(* frame codec (packages/protocol/src/codec.ts) and RPC envelope codec     *)
(* (packages/rpc/src/codec.ts).                                            *)
(*                                                                         *)
(* The engine is a Map from the hex form of a correlation id to a pending  *)
(* record (promise, resolve, reject, timeoutHandle).  Every method of the  *)
(* class and every setTimeout callback runs to completion on the single    *)
(* JavaScript thread, so each is one atomic action here.  A timer armed by *)
(* setTimeout(f, timeoutMs) runs f no earlier than timeoutMs after the     *)
(* call, and possibly later: the callback is a task of its own, queued     *)
(* behind whatever else the event loop has to run.  Each armed timer       *)
(* counts the time elapsed since it was set; the count stops one tick past *)
(* the delay, where the timer is overdue, and a timer that is cancelled or *)
(* has fired counts nothing any more.                                      *)
(*                                                                         *)
(* The codecs are pure functions.  Each is an operator here, computed byte *)
(* by byte as the code computes it, and is exercised by a caller that      *)
(* holds a value, encodes it and decodes what it got (CodecSpec, RpcSpec). *)
(***************************************************************************)
EXTENDS Integers, Sequences, FiniteSets, TLC

VARIABLES pendingRequests, promises, timers, nextReg, lastCall,
          regCid, terminal,
          frame, encoded, decoded, subject, validated,
          envelope, bytes, parsed,
          hexArg, hexResult, hexBack,
          hsPayload, hsBytes, hsDecoded,
          chClosed, chBuffer, chResolvers, microtasks, nextCalls, heap,
          sendLog, recvLog

engineVars == <<pendingRequests, promises, timers, nextReg, lastCall,
                regCid, terminal>>

(* The locals of a caller of the frame codec and of the subject validator *)
codecVars == <<frame, encoded, decoded, subject, validated>>

(* The locals of a caller of the envelope codec *)
rpcVars == <<envelope, bytes, parsed>>

(* The locals of a caller of frameIdToHex and frameIdFromHex *)
hexVars == <<hexArg, hexResult, hexBack>>

(* The locals of a caller of the handshake codec *)
handshakeVars == <<hsPayload, hsBytes, hsDecoded>>

(* The two channels of a MemoryTransport pair, the next() calls on their   *)
(* inbound iterators, the microtask queue and the byte arrays of the host, *)
(* and the history of what was sent and what was delivered                 *)
transportVars == <<chClosed, chBuffer, chResolvers, microtasks, nextCalls, heap,
                   sendLog, recvLog>>

otherVars == <<hexVars, handshakeVars, transportVars>>

vars == <<pendingRequests, promises, timers, nextReg, lastCall,
          regCid, terminal,
          frame, encoded, decoded, subject, validated,
          envelope, bytes, parsed,
          hexArg, hexResult, hexBack,
          hsPayload, hsBytes, hsDecoded,
          chClosed, chBuffer, chResolvers, microtasks, nextCalls, heap,
          sendLog, recvLog>>

----------------------------------------------------------------------------
(* Bounds of the model *)

NumCids == 2
MaxRegs == 2

timeoutMs == 1

(* Program constants *)

FRAME_ID_SIZE == 16

----------------------------------------------------------------------------
(* Correlation ids and their Map keys *)

Regs == 1..MaxRegs

MkCid(i) == [j \in 1..FRAME_ID_SIZE |-> IF j = 1 THEN i ELSE (i * 37 + j * 11) % 256]

Cids == {MkCid(i) : i \in 1..NumCids}

(* 0x00112233445566778899aabbccddeeff *)
SampleId == [i \in 1..FRAME_ID_SIZE |-> (i - 1) * 17]

HexDigit(n) ==
  <<"0", "1", "2", "3", "4", "5", "6", "7",
    "8", "9", "a", "b", "c", "d", "e", "f">>[n + 1]

cidToKey(cid) ==
  [k \in 1..(2 * Len(cid)) |->
     IF k % 2 = 1 THEN HexDigit(cid[(k + 1) \div 2] \div 16)
                  ELSE HexDigit(cid[k \div 2] % 16)]

(* Values a caller hands to matchResponse and rejectRequest *)

Responses ==
  { [t |-> "R", result |-> "John", code |-> 0,   message |-> ""],
    [t |-> "E", result |-> "",     code |-> 404, message |-> "User not found"] }

Reasons == { [name |-> "Error", message |-> "Connection lost"] }

TimeoutError == [name |-> "Error", message |-> "RPC request timeout after ms", ms |-> timeoutMs]

DisconnectError == [name |-> "Error", message |-> "Peer disconnected"]

NoValue == [name |-> "undefined"]

----------------------------------------------------------------------------
(* Promise and timer primitives of the host *)

NewPromise == [state |-> "pending", value |-> NoValue]

Unborn == [state |-> "unborn", value |-> NoValue]

resolve_rejectsErrorEnvelope(ps, r, v) ==
  IF ps[r].state = "pending"
    THEN [ps EXCEPT ![r] = [state |-> IF v.t = "E" THEN "rejected" ELSE "fulfilled",
                            value |-> v]]
    ELSE ps

resolve(ps, r, v) ==
  IF ps[r].state = "pending"
    THEN [ps EXCEPT ![r] = [state |-> "fulfilled", value |-> v]]
    ELSE ps

reject_wrapsReason(ps, r, e) ==
  IF ps[r].state = "pending"
    THEN [ps EXCEPT ![r] = [state |-> "rejected",
                            value |-> [name |-> "Error", message |-> "RPC failed", cause |-> e]]]
    ELSE ps

reject(ps, r, e) ==
  IF ps[r].state = "pending"
    THEN [ps EXCEPT ![r] = [state |-> "rejected", value |-> e]]
    ELSE ps

NoTimer == [state |-> "unset", delay |-> 0, elapsed |-> 0, key |-> <<>>, promise |-> 0]

setTimeout_noDelay(ts, h, k, r, ms) ==
  [ts EXCEPT ![h] = [state |-> "armed", delay |-> 0, elapsed |-> 0,
                     key |-> k, promise |-> r]]

setTimeout_unarmed(ts, h, k, r, ms) ==
  [ts EXCEPT ![h] = [state |-> "unset", delay |-> ms, elapsed |-> 0,
                     key |-> k, promise |-> r]]

setTimeout(ts, h, k, r, ms) ==
  [ts EXCEPT ![h] = [state |-> "armed", delay |-> ms, elapsed |-> 0,
                     key |-> k, promise |-> r]]

clearTimeout_noop(ts, h) == ts

clearTimeout(ts, h) ==
  IF ts[h].state = "armed"
    THEN [ts EXCEPT ![h].state = "cleared", ![h].elapsed = 0]
    ELSE ts

MapDelete_all(m, k) == [x \in {} |-> m[x]]

MapDelete(m, k) == [x \in (DOMAIN m) \ {k} |-> m[x]]

MapSet(m, k, v) == [x \in (DOMAIN m) \cup {k} |-> IF x = k THEN v ELSE m[x]]

EmptyMap == [x \in {} |-> 0]

MapHas_never(m, k) == FALSE

MapHas(m, k) == k \in DOMAIN m

MapClear_noop(m) == m

MapClear(m) == EmptyMap

(* What the caller of the last engine method saw: a return or a throw. *)
Returned(op, cid, h) == [op |-> op, cid |-> cid, outcome |-> "ok", handle |-> h]

AlreadyRegistered(cid) ==
  [op |-> "registerRequest", cid |-> cid, outcome |-> "already registered", handle |-> 0]

NoPendingRequest_silent(op, cid) == Returned(op, cid, 0)

NoPendingRequest(op, cid) ==
  [op |-> op, cid |-> cid, outcome |-> "no pending request", handle |-> 0]

getPendingCount == Cardinality(DOMAIN pendingRequests)

----------------------------------------------------------------------------
(* A caller that has not called the codecs *)
NotCalled == [ok |-> FALSE, name |-> "none", code |-> 0]

CodecIdle ==
  /\ frame = NotCalled
  /\ encoded = NotCalled
  /\ decoded = NotCalled
  /\ subject = NotCalled
  /\ validated = NotCalled

RpcIdle ==
  /\ envelope = NotCalled
  /\ bytes = NotCalled
  /\ parsed = NotCalled

HexIdle ==
  /\ hexArg = NotCalled
  /\ hexResult = NotCalled
  /\ hexBack = NotCalled

HandshakeIdle ==
  /\ hsPayload = NotCalled
  /\ hsBytes = NotCalled
  /\ hsDecoded = NotCalled

(* No connect() yet: no channel, no array, nothing queued *)
TransportIdle ==
  /\ chClosed = <<>>
  /\ chBuffer = <<>>
  /\ chResolvers = <<>>
  /\ microtasks = <<>>
  /\ nextCalls = <<>>
  /\ heap = <<>>
  /\ sendLog = <<>>
  /\ recvLog = <<>>

OthersIdle == HexIdle /\ HandshakeIdle /\ TransportIdle

EngineInit ==
  /\ pendingRequests = EmptyMap
  /\ promises = [r \in Regs |-> Unborn]
  /\ timers = [r \in Regs |-> NoTimer]
  /\ nextReg = 1
  /\ lastCall = Returned("new", <<>>, 0)
  /\ regCid = [r \in Regs |-> <<>>]
  /\ terminal = [r \in Regs |-> "none"]

Init == EngineInit /\ CodecIdle /\ RpcIdle /\ OthersIdle

(* registerRequest(cid): throws on a key that is present, else creates the *)
(* promise, arms the timer and stores the record.                          *)
registerRequest(cid) ==
  LET cidHex == cidToKey(cid) IN
  /\ UNCHANGED <<codecVars, rpcVars, otherVars>>
  /\ IF MapHas(pendingRequests, cidHex)
    THEN /\ lastCall' = AlreadyRegistered(cid)
         /\ UNCHANGED <<pendingRequests, promises, timers, nextReg, regCid, terminal>>
    ELSE /\ nextReg <= MaxRegs
         /\ promises' = [promises EXCEPT ![nextReg] = NewPromise]
         /\ timers' = setTimeout(timers, nextReg, cidHex, nextReg, timeoutMs)
         /\ pendingRequests' = MapSet(pendingRequests, cidHex,
                                 [promise |-> nextReg, timeoutHandle |-> nextReg])
         /\ nextReg' = nextReg + 1
         /\ lastCall' = Returned("registerRequest", cid, nextReg)
         /\ regCid' = [regCid EXCEPT ![nextReg] = cid]
         /\ UNCHANGED terminal

(* The callback that registerRequest hands to setTimeout: it deletes the   *)
(* key it closed over and rejects the promise it closed over.              *)
TimeoutFire(h) ==
  /\ timers[h].state = "armed"
  /\ timers[h].elapsed >= timers[h].delay
  /\ timers' = [timers EXCEPT ![h].state = "fired", ![h].elapsed = 0]
  /\ pendingRequests' = MapDelete(pendingRequests, timers[h].key)
  /\ promises' = reject(promises, timers[h].promise, TimeoutError)
  /\ terminal' = [terminal EXCEPT ![h] = IF @ = "none" THEN "timeout" ELSE @]
  /\ UNCHANGED <<nextReg, lastCall, regCid>>
  /\ UNCHANGED <<codecVars, rpcVars, otherVars>>

matchResponse(cid, response) ==
  LET cidHex == cidToKey(cid) IN
  /\ UNCHANGED <<codecVars, rpcVars, otherVars>>
  /\ IF cidHex \notin DOMAIN pendingRequests
    THEN /\ lastCall' = NoPendingRequest("matchResponse", cid)
         /\ UNCHANGED <<pendingRequests, promises, timers, nextReg, regCid, terminal>>
    ELSE LET pending == pendingRequests[cidHex] IN
         /\ timers' = clearTimeout(timers, pending.timeoutHandle)
         /\ pendingRequests' = MapDelete(pendingRequests, cidHex)
         /\ promises' = resolve(promises, pending.promise, response)
         /\ lastCall' = Returned("matchResponse", cid, 0)
         /\ terminal' = [terminal EXCEPT ![pending.promise] =
                           IF @ = "none" THEN "match" ELSE @]
         /\ UNCHANGED <<nextReg, regCid>>

rejectRequest(cid, reason) ==
  LET cidHex == cidToKey(cid) IN
  /\ UNCHANGED <<codecVars, rpcVars, otherVars>>
  /\ IF cidHex \notin DOMAIN pendingRequests
    THEN /\ lastCall' = NoPendingRequest("rejectRequest", cid)
         /\ UNCHANGED <<pendingRequests, promises, timers, nextReg, regCid, terminal>>
    ELSE LET pending == pendingRequests[cidHex] IN
         /\ timers' = clearTimeout(timers, pending.timeoutHandle)
         /\ pendingRequests' = MapDelete(pendingRequests, cidHex)
         /\ promises' = reject(promises, pending.promise, reason)
         /\ lastCall' = Returned("rejectRequest", cid, 0)
         /\ terminal' = [terminal EXCEPT ![pending.promise] =
                           IF @ = "none" THEN "reject" ELSE @]
         /\ UNCHANGED <<nextReg, regCid>>

(* clear(): the loop over pendingRequests.values(), then Map.clear().      *)
PendingRegs == {pendingRequests[k].promise : k \in DOMAIN pendingRequests}

PendingHandles_none == {}

PendingHandles == {pendingRequests[k].timeoutHandle : k \in DOMAIN pendingRequests}

clear ==
  /\ timers' = [h \in Regs |->
                  IF h \in PendingHandles THEN clearTimeout(timers, h)[h]
                                          ELSE timers[h]]
  /\ promises' = [r \in Regs |->
                    IF r \in PendingRegs THEN reject(promises, r, DisconnectError)[r]
                                         ELSE promises[r]]
  /\ pendingRequests' = MapClear(pendingRequests)
  /\ lastCall' = Returned("clear", <<>>, 0)
  /\ terminal' = [r \in Regs |->
                    IF r \in PendingRegs /\ terminal[r] = "none"
                      THEN "clear" ELSE terminal[r]]
  /\ UNCHANGED <<nextReg, regCid>>
  /\ UNCHANGED <<codecVars, rpcVars, otherVars>>

(* The clock of the host: one tick of time for every armed timer. *)
Overdue == timeoutMs + 1

Tick ==
  /\ \E h \in Regs : timers[h].state = "armed" /\ timers[h].elapsed < Overdue
  /\ timers' = [h \in Regs |->
                  IF timers[h].state = "armed" /\ timers[h].elapsed < Overdue
                    THEN [timers[h] EXCEPT !.elapsed = @ + 1]
                    ELSE timers[h]]
  /\ UNCHANGED <<pendingRequests, promises, nextReg, lastCall, regCid, terminal>>
  /\ UNCHANGED <<codecVars, rpcVars, otherVars>>

Next ==
  \/ \E cid \in Cids : registerRequest(cid)
  \/ \E cid \in Cids, response \in Responses : matchResponse(cid, response)
  \/ \E cid \in Cids, reason \in Reasons : rejectRequest(cid, reason)
  \/ clear
  \/ \E h \in Regs : TimeoutFire(h)
  \/ Tick

Spec == Init /\ [][Next]_vars

(* Armed timers eventually run their callback, and time passes. *)
FairSpec == Spec /\ WF_vars(Tick) /\ \A h \in Regs : WF_vars(TimeoutFire(h))

----------------------------------------------------------------------------
(* Vocabulary of the properties *)

Created(r) == r < nextReg

Live(r) == Created(r) /\ terminal[r] = "none"

Registered(cid) == cidToKey(cid) \in DOMAIN pendingRequests

Fulfilled(v) == [state |-> "fulfilled", value |-> v]

Rejected(e) == [state |-> "rejected", value |-> e]

Settled(r) == promises[r].state \in {"fulfilled", "rejected"}

----------------------------------------------------------------------------
(* C1: when registerRequest(c) has returned a handle and no terminal event *)
(* (match, reject, clear, timeout) has yet happened to that registration,  *)
(* matchResponse(c, v) returns normally and the handle is fulfilled with   *)
(* exactly v, also when v is an Error-response envelope.                   *)
C1_MatchResolvesHandle ==
  [][\A r \in Regs, v \in Responses :
       (Live(r) /\ matchResponse(regCid[r], v))
         => /\ lastCall'.outcome = "ok"
            /\ promises'[r] = Fulfilled(v)]_vars

C1_Witness ==
  \E r \in Regs :
    /\ Created(r) /\ terminal[r] = "match"
    /\ lastCall.op = "matchResponse" /\ lastCall.outcome = "ok"
    /\ promises[r].state = "fulfilled" /\ promises[r].value.t = "E"

(* C2: at most one live registration per correlation id, and               *)
(* registerRequest(c) on a pending c throws 'already registered' and       *)
(* neither adds nor replaces an entry.                                     *)
OnePendingPerCid ==
  \A r1, r2 \in Regs :
    (Live(r1) /\ Live(r2) /\ regCid[r1] = regCid[r2]) => r1 = r2

C2_NoDuplicateRegistration ==
  /\ []OnePendingPerCid
  /\ [][\A cid \in Cids :
          (registerRequest(cid) /\ Registered(cid))
            => /\ lastCall'.outcome = "already registered"
               /\ pendingRequests' = pendingRequests
               /\ nextReg' = nextReg]_vars

C2_Witness ==
  /\ lastCall.op = "registerRequest"
  /\ lastCall.outcome = "already registered"
  /\ \E r \in Regs : Live(r) /\ regCid[r] = lastCall.cid

(* C3: an id all of whose registrations are terminated (or that was never  *)
(* registered) has no entry, and matchResponse / rejectRequest on an id    *)
(* without entry throw 'no pending request' instead of returning.          *)
TerminatedHasNoEntry ==
  \A cid \in Cids :
    (\A r \in Regs : (Created(r) /\ regCid[r] = cid) => terminal[r] # "none")
      => ~Registered(cid)

C3_FireOnce ==
  /\ []TerminatedHasNoEntry
  /\ [][\A cid \in Cids :
          /\ \A v \in Responses :
               (matchResponse(cid, v) /\ ~Registered(cid))
                 => lastCall'.outcome = "no pending request"
          /\ \A e \in Reasons :
               (rejectRequest(cid, e) /\ ~Registered(cid))
                 => lastCall'.outcome = "no pending request"]_vars

C3_Witness ==
  /\ lastCall.op = "matchResponse"
  /\ lastCall.outcome = "no pending request"
  /\ \E r \in Regs : Created(r) /\ regCid[r] = lastCall.cid /\ terminal[r] = "timeout"

(* C4: the outcome of a registration is the one of its first terminal      *)
(* event (match: fulfilled with v; reject: rejected with exactly the       *)
(* reason; clear: rejected with the disconnect error; timeout: rejected    *)
(* with the timeout error) and a settled handle never changes.             *)
OutcomeByFirstEvent ==
  \A r \in Regs :
    Created(r) =>
      /\ (terminal[r] = "none")    => promises[r].state = "pending"
      /\ (terminal[r] = "match")   => /\ promises[r].state = "fulfilled"
                                      /\ promises[r].value \in Responses
      /\ (terminal[r] = "reject")  => /\ promises[r].state = "rejected"
                                      /\ promises[r].value \in Reasons
      /\ (terminal[r] = "clear")   => promises[r] = Rejected(DisconnectError)
      /\ (terminal[r] = "timeout") => promises[r] = Rejected(TimeoutError)

C4_OneOutcome ==
  /\ []OutcomeByFirstEvent
  /\ [][\A r \in Regs :
          /\ Settled(r) => promises'[r] = promises[r]
          /\ \A v \in Responses :
               (Live(r) /\ matchResponse(regCid[r], v)) => promises'[r] = Fulfilled(v)
          /\ \A e \in Reasons :
               (Live(r) /\ rejectRequest(regCid[r], e)) => promises'[r] = Rejected(e)]_vars

C4_Witness ==
  \E r1, r2 \in Regs :
    /\ Created(r1) /\ terminal[r1] = "reject" /\ promises[r1].value \in Reasons
    /\ Created(r2) /\ terminal[r2] = "timeout" /\ promises[r2] = Rejected(TimeoutError)
    /\ lastCall.outcome = "no pending request"

(* C5 as stated: an entry that got no match, reject or clear before its    *)
(* deadline is timed out, so a matchResponse or rejectRequest issued once  *)
(* the deadline has passed fails because the id is not registered.         *)
C5_Original ==
  [][\A r \in Regs :
       (Live(r) /\ timers[r].elapsed > timeoutMs)
         => /\ \A v \in Responses :
                 matchResponse(regCid[r], v) => lastCall'.outcome = "no pending request"
            /\ \A e \in Reasons :
                 rejectRequest(regCid[r], e) => lastCall'.outcome = "no pending request"]_vars

(* C5 as amended: the timeout callback runs no earlier than timeoutMs      *)
(* after registerRequest and only for an entry that no match, reject or    *)
(* clear has terminated before the callback runs; when it runs it removes  *)
(* that entry and rejects the handle with the timeout error, and from then *)
(* on, until the id is registered again, matchResponse and rejectRequest   *)
(* on the id throw because it is not registered.                           *)
LaterLive(r) ==
  \E r2 \in Regs : r2 > r /\ Live(r2) /\ regCid[r2] = regCid[r]

TimedOutIsGone ==
  \A r \in Regs :
    (Created(r) /\ terminal[r] = "timeout")
      => /\ promises[r] = Rejected(TimeoutError)
         /\ timers[r].state = "fired"
         /\ ~LaterLive(r) => ~Registered(regCid[r])

C5_TimeoutFires ==
  /\ []TimedOutIsGone
  /\ [][\A r \in Regs :
          /\ TimeoutFire(r)
               => /\ timers[r].elapsed >= timeoutMs
                  /\ Live(r)
                  /\ Registered(regCid[r])
                  /\ pendingRequests[cidToKey(regCid[r])].promise = r
                  /\ cidToKey(regCid[r]) \notin DOMAIN pendingRequests'
                  /\ promises'[r] = Rejected(TimeoutError)
          /\ (Created(r) /\ terminal[r] = "timeout" /\ ~LaterLive(r))
               => /\ \A v \in Responses :
                       matchResponse(regCid[r], v)
                         => lastCall'.outcome = "no pending request"
                  /\ \A e \in Reasons :
                       rejectRequest(regCid[r], e)
                         => lastCall'.outcome = "no pending request"]_vars

C5_Witness ==
  \E r \in Regs :
    /\ Created(r) /\ terminal[r] = "timeout"
    /\ promises[r] = Rejected(TimeoutError)
    /\ lastCall = NoPendingRequest("rejectRequest", regCid[r])

(* C6: match, reject and clear cancel the timer in the step that removes   *)
(* the entry, so an armed timer always belongs to the entry now stored     *)
(* under its key, and a timer that fires removes and rejects its own       *)
(* registration only, never a later registration of the same id.           *)
ArmedOnlyForOwnEntry ==
  \A h \in Regs :
    timers[h].state = "armed"
      => /\ Live(h)
         /\ Registered(regCid[h])
         /\ pendingRequests[cidToKey(regCid[h])] = [promise |-> h, timeoutHandle |-> h]

C6_NoStaleTimeout ==
  /\ []ArmedOnlyForOwnEntry
  /\ [][\A r \in Regs :
          /\ (Live(r) /\ ( \/ \E v \in Responses : matchResponse(regCid[r], v)
                           \/ \E e \in Reasons : rejectRequest(regCid[r], e)
                           \/ clear ))
               => /\ timers[r].state = "armed"
                  /\ timers'[r].state = "cleared"
                  /\ cidToKey(regCid[r]) \notin DOMAIN pendingRequests'
          /\ TimeoutFire(r)
               => /\ Live(r)
                  /\ \A r2 \in Regs \ {r} :
                       /\ promises'[r2] = promises[r2]
                       /\ Live(r2) => /\ cidToKey(regCid[r2]) \in DOMAIN pendingRequests'
                                      /\ timers'[r2].state = "armed"]_vars

C6_Witness ==
  \E r1, r2 \in Regs :
    /\ r1 < r2 /\ Created(r2) /\ regCid[r1] = regCid[r2]
    /\ terminal[r1] = "match" /\ timers[r1].state = "cleared"
    /\ Live(r2) /\ Registered(regCid[r2]) /\ timers[r2].state = "armed"
    /\ timers[r2].elapsed >= timeoutMs

(* C7: clear() can always be called and returns normally; when it returns  *)
(* every handle that was pending is rejected with the disconnect error,    *)
(* no timer is armed and getPendingCount() is 0; with nothing pending it   *)
(* changes nothing.                                                        *)
C7_ClearAll ==
  /\ [](ENABLED clear)
  /\ [][clear
          => /\ lastCall' = Returned("clear", <<>>, 0)
             /\ \A r \in Regs :
                  Live(r) => /\ promises[r].state = "pending"
                             /\ promises'[r] = Rejected(DisconnectError)
                             /\ timers'[r].state = "cleared"
             /\ \A h \in Regs : timers'[h].state # "armed"
             /\ Cardinality(DOMAIN pendingRequests') = 0
             /\ (getPendingCount = 0)
                  => UNCHANGED <<pendingRequests, promises, timers, terminal>>]_vars

C7_Witness ==
  /\ lastCall.op = "clear"
  /\ getPendingCount = 0
  /\ \E r1, r2 \in Regs :
       /\ r1 # r2
       /\ promises[r1] = Rejected(DisconnectError) /\ timers[r1].state = "cleared"
       /\ promises[r2] = Rejected(DisconnectError) /\ timers[r2].state = "cleared"

(* C8: clear() touches only the registrations pending at the call; right   *)
(* after clear, registerRequest succeeds for every id and creates a        *)
(* pending entry with its own armed timer, and a registration made after   *)
(* a clear is matched, rejected and timed out like any other.              *)
SomeCleared == \E r0 \in Regs : Created(r0) /\ terminal[r0] = "clear"

C8_ReusableAfterClear ==
  /\ [][clear
          => \A r \in Regs :
               ~Live(r) => /\ promises'[r] = promises[r]
                           /\ timers'[r] = timers[r]
                           /\ terminal'[r] = terminal[r]]_vars
  /\ [][\A cid \in Cids :
          (lastCall.op = "clear" /\ registerRequest(cid))
            => /\ lastCall' = Returned("registerRequest", cid, nextReg)
               /\ promises'[nextReg] = NewPromise
               /\ timers'[nextReg].state = "armed"
               /\ timers'[nextReg].delay = timeoutMs
               /\ timers'[nextReg].elapsed = 0
               /\ pendingRequests'[cidToKey(cid)] =
                    [promise |-> nextReg, timeoutHandle |-> nextReg]
               /\ Cardinality(DOMAIN pendingRequests') = 1]_vars
  /\ [][\A r \in Regs :
          (Live(r) /\ SomeCleared)
            => /\ \A v \in Responses :
                    matchResponse(regCid[r], v) => promises'[r] = Fulfilled(v)
               /\ \A e \in Reasons :
                    rejectRequest(regCid[r], e) => promises'[r] = Rejected(e)
               /\ TimeoutFire(r) => promises'[r] = Rejected(TimeoutError)]_vars

C8_Witness ==
  \E r0, r \in Regs :
    /\ r0 < r /\ Created(r) /\ regCid[r0] = regCid[r]
    /\ terminal[r0] = "clear" /\ promises[r0] = Rejected(DisconnectError)
    /\ terminal[r] = "match" /\ promises[r].state = "fulfilled"

(* C9: under the assumption that time passes and armed timers eventually   *)
(* fire, the registry is empty again and again, whether or not anyone      *)
(* calls match, reject or clear: every entry is eventually removed, and a  *)
(* registration whose entry is gone has its handle settled.                *)
HoldsEntry(r) ==
  /\ Registered(regCid[r])
  /\ pendingRequests[cidToKey(regCid[r])].promise = r

RemovedIsSettled ==
  \A r \in Regs : (Created(r) /\ ~HoldsEntry(r)) => Settled(r)

C9_NoLeak ==
  /\ []RemovedIsSettled
  /\ []<>(getPendingCount = 0)

C9_Witness ==
  /\ nextReg > MaxRegs
  /\ lastCall.op = "registerRequest"
  /\ getPendingCount = 0
  /\ \A r \in Regs : terminal[r] = "timeout" /\ promises[r] = Rejected(TimeoutError)

(* C10: getPendingCount() is the number of ids with a live registration,   *)
(* and a match, reject or timeout of one registration removes exactly its  *)
(* own entry and leaves every other entry, handle and timer as it was.     *)
LiveCids == {regCid[r] : r \in {x \in Regs : Live(x)}}

CountIsLive == getPendingCount = Cardinality(LiveCids)

C10_CountAndFrame ==
  /\ []CountIsLive
  /\ [][\A r \in Regs :
          (Live(r) /\ ( \/ \E v \in Responses : matchResponse(regCid[r], v)
                        \/ \E e \in Reasons : rejectRequest(regCid[r], e)
                        \/ TimeoutFire(r) ))
            => /\ DOMAIN pendingRequests' = DOMAIN pendingRequests \ {cidToKey(regCid[r])}
               /\ \A k \in DOMAIN pendingRequests' : pendingRequests'[k] = pendingRequests[k]
               /\ \A r2 \in Regs \ {r} :
                    /\ promises'[r2] = promises[r2]
                    /\ timers'[r2] = timers[r2]
                    /\ terminal'[r2] = terminal[r2]]_vars

C10_Witness ==
  \E r1, r2 \in Regs :
    /\ r1 < r2 /\ Created(r2)
    /\ terminal[r2] = "match" /\ promises[r2].state = "fulfilled"
    /\ Live(r1) /\ promises[r1].state = "pending" /\ timers[r1].state = "armed"
    /\ getPendingCount = 1

----------------------------------------------------------------------------
(* Frame codec: packages/protocol/src/constants.ts, index.ts and codec.ts.  *)
(* A byte is a number in 0..255, a Uint8Array a sequence of bytes, a string *)
(* a sequence of code points.  A call either returns a value or throws.     *)

(* FrameKind *)
Control == 0
Message == 1
Ack == 2
Error == 3

(* ControlOp *)
Handshake == 0
Ping == 1
Pong == 2
Close == 3

(* ErrorCode *)
ProtocolViolation == 1000
UnsupportedVersion == 1001
InvalidFrame == 1002
ApplicationError == 2000

HEADER_SIZE == 2
HEADER_WITH_FRAME_ID_SIZE == HEADER_SIZE + FRAME_ID_SIZE
MAX_SUBJECT_BYTES == 256

Return(v) == [ok |-> TRUE, value |-> v]

(* throw new ProtocolError(message, code) *)
ProtocolError(code) == [ok |-> FALSE, name |-> "ProtocolError", code |-> code]

(* What the host throws when TypedArray.prototype.set does not fit *)
RangeError == [ok |-> FALSE, name |-> "RangeError", code |-> 0]

Min(a, b) == IF a < b THEN a ELSE b

(* Uint8Array.prototype.slice(start, end): the end is clamped to the length *)
slice(buf, start, end) == SubSeq(buf, start + 1, Min(end, Len(buf)))

(* Uint8Array.prototype.set(src, offset) on a buffer of zeros or older     *)
(* bytes: throws RangeError when the source does not fit.                  *)
Fits(buf, src, offset) == offset + Len(src) <= Len(buf)

set(buf, src, offset) ==
  [i \in 1..Len(buf) |->
     IF i > offset /\ i <= offset + Len(src) THEN src[i - offset] ELSE buf[i]]

Zeros(n) == [i \in 1..n |-> 0]

(* DataView.getUint32(offset, true).  The value is b0 + 2^8 b1 + 2^16 b2 + *)
(* 2^24 b3; it is kept as the pair (b3, low 24 bits) because the checker's *)
(* integers are 32-bit signed and the code's are doubles, which hold every *)
(* unsigned 32-bit value exactly.                                          *)
getUint32(buf, offset) ==
  [hi |-> buf[offset + 4],
   lo |-> buf[offset + 1] + (256 * buf[offset + 2]) + (65536 * buf[offset + 3])]

setUint32_bigEndian(n) == <<0, (n \div 65536) % 256, (n \div 256) % 256, n % 256>>

(* DataView.setUint32(offset, n, true) for a length n below 2^24 *)
setUint32(n) == <<n % 256, (n \div 256) % 256, (n \div 65536) % 256, 0>>

(* DataView.getUint16(offset, true) and setUint16(offset, n, true) *)
getUint16(buf, offset) == buf[offset + 1] + (256 * buf[offset + 2])

setUint16(n) == <<n % 256, (n \div 256) % 256>>

(* `available < declared` of the length guards, on the pair form: a length *)
(* of 2^24 or more exceeds every buffer of the model.                      *)
lengthExceeds_lowOnly(declared, available) == available < declared.lo

lengthExceeds(declared, available) ==
  declared.hi > 0 \/ available < declared.lo

(* The number the pair stands for, when it is below 2^24 *)
toNumber(declared) == declared.lo

----------------------------------------------------------------------------
(* TextEncoder / TextDecoder of the host (UTF-8, WHATWG Encoding) *)

REPLACEMENT == 65533

(* TextEncoder.encode of one code point; a lone surrogate is written as    *)
(* U+FFFD.                                                                 *)
encodeCodePoint(cp) ==
  IF cp < 128 THEN <<cp>>
  ELSE IF cp < 2048 THEN <<192 + (cp \div 64), 128 + (cp % 64)>>
  ELSE IF cp \in 55296..57343 THEN <<239, 191, 189>>
  ELSE IF cp < 65536
    THEN <<224 + (cp \div 4096), 128 + ((cp \div 64) % 64), 128 + (cp % 64)>>
  ELSE <<240 + (cp \div 262144), 128 + ((cp \div 4096) % 64),
         128 + ((cp \div 64) % 64), 128 + (cp % 64)>>

(* TextEncoder.encode: the code points' bytes in order (computed by halves) *)
RECURSIVE TextEncoder_encode(_)
TextEncoder_encode(str) ==
  IF Len(str) = 0 THEN <<>>
  ELSE IF Len(str) = 1 THEN encodeCodePoint(str[1])
  ELSE LET mid == Len(str) \div 2 IN
       TextEncoder_encode(SubSeq(str, 1, mid))
         \o TextEncoder_encode(SubSeq(str, mid + 1, Len(str)))

(* The UTF-8 decoder in replacement mode.  Its state between two bytes is  *)
(* the code point under construction, the number of continuation bytes     *)
(* still needed and the range lower..upper allowed for the next byte.      *)
Utf8Start == [cp |-> 0, needed |-> 0, lower |-> 128, upper |-> 191]

(* A byte read when no sequence is open *)
utf8Lead(b) ==
  IF b <= 127 THEN [out |-> <<b>>, st |-> Utf8Start]
  ELSE IF b \in 194..223
    THEN [out |-> <<>>, st |-> [cp |-> b % 32, needed |-> 1, lower |-> 128, upper |-> 191]]
  ELSE IF b \in 224..239
    THEN [out |-> <<>>,
          st |-> [cp |-> b % 16, needed |-> 2,
                  lower |-> IF b = 224 THEN 160 ELSE 128,
                  upper |-> IF b = 237 THEN 159 ELSE 191]]
  ELSE IF b \in 240..244
    THEN [out |-> <<>>,
          st |-> [cp |-> b % 8, needed |-> 3,
                  lower |-> IF b = 240 THEN 144 ELSE 128,
                  upper |-> IF b = 244 THEN 143 ELSE 191]]
  ELSE [out |-> <<REPLACEMENT>>, st |-> Utf8Start]

(* One byte: a byte that cannot continue the open sequence closes it with  *)
(* U+FFFD and is then read again as a lead byte.                           *)
utf8Byte(st, b) ==
  IF st.needed = 0 THEN utf8Lead(b)
  ELSE IF b \notin st.lower..st.upper
    THEN [out |-> <<REPLACEMENT>> \o utf8Lead(b).out, st |-> utf8Lead(b).st]
  ELSE IF st.needed = 1
    THEN [out |-> <<(st.cp * 64) + (b % 64)>>, st |-> Utf8Start]
  ELSE [out |-> <<>>,
        st |-> [cp |-> (st.cp * 64) + (b % 64), needed |-> st.needed - 1,
                lower |-> 128, upper |-> 191]]

(* The bytes buf[from..to] read from state st (computed by halves) *)
RECURSIVE utf8Run(_, _, _, _)
utf8Run(buf, from, to, st) ==
  IF from > to THEN [out |-> <<>>, st |-> st]
  ELSE IF from = to THEN utf8Byte(st, buf[from])
  ELSE LET mid == (from + to) \div 2
           left == utf8Run(buf, from, mid, st)
           right == utf8Run(buf, mid + 1, to, left.st)
       IN [out |-> left.out \o right.out, st |-> right.st]

(* The whole input; a sequence left open at the end becomes U+FFFD *)
utf8Decode(buf) ==
  LET run == utf8Run(buf, 1, Len(buf), Utf8Start) IN
  IF run.st.needed # 0 THEN run.out \o <<REPLACEMENT>> ELSE run.out

BOM == <<239, 187, 191>>

(* new TextDecoder().decode(buf): not fatal, and a leading byte order mark *)
(* is dropped.                                                             *)
TextDecoder_decode(buf) ==
  IF Len(buf) >= 3 /\ SubSeq(buf, 1, 3) = BOM
    THEN utf8Decode(SubSeq(buf, 4, Len(buf)))
    ELSE utf8Decode(buf)

(* encodeString and decodeString of codec.ts: the host has TextEncoder and *)
(* TextDecoder.                                                            *)
encodeString(str) == TextEncoder_encode(str)

decodeString(buf) == TextDecoder_decode(buf)

----------------------------------------------------------------------------
(* index.ts: branded values *)

asFrameId(value) ==
  IF Len(value) # FRAME_ID_SIZE THEN ProtocolError(InvalidFrame)
  ELSE Return(value)

(* "rpc/", "event/", "stream/", "app/" *)
RESERVED_SUBJECT_PREFIXES ==
  { <<114, 112, 99, 47>>,
    <<101, 118, 101, 110, 116, 47>>,
    <<115, 116, 114, 101, 97, 109, 47>>,
    <<97, 112, 112, 47>> }

includes(str, ch) == \E i \in 1..Len(str) : str[i] = ch

startsWith(str, p) == Len(str) >= Len(p) /\ SubSeq(str, 1, Len(p)) = p

asSubject_countsCharacters(value) ==
  IF includes(value, 0) THEN ProtocolError(ProtocolViolation)
  ELSE IF Len(value) = 0 THEN ProtocolError(ProtocolViolation)
  ELSE IF Len(value) > MAX_SUBJECT_BYTES THEN ProtocolError(ProtocolViolation)
  ELSE IF ~ \E p \in RESERVED_SUBJECT_PREFIXES : startsWith(value, p)
    THEN ProtocolError(ProtocolViolation)
  ELSE Return(value)

asSubject(value) ==
  IF includes(value, 0) THEN ProtocolError(ProtocolViolation)
  ELSE LET utf8Bytes == TextEncoder_encode(value) IN
    IF Len(utf8Bytes) = 0 THEN ProtocolError(ProtocolViolation)
    ELSE IF Len(utf8Bytes) > MAX_SUBJECT_BYTES THEN ProtocolError(ProtocolViolation)
    ELSE IF ~ \E p \in RESERVED_SUBJECT_PREFIXES : startsWith(value, p)
      THEN ProtocolError(ProtocolViolation)
    ELSE Return(value)

----------------------------------------------------------------------------
(* codec.ts: a frame is a record; an optional field that is undefined is   *)
(* not in the record's domain.                                             *)

Has(f, field) == field \in DOMAIN f

ControlFrame(frameId, op) == [kind |-> Control, op |-> op, frameId |-> frameId]

ControlFrameWith(frameId, op, data) ==
  [kind |-> Control, op |-> op, data |-> data, frameId |-> frameId]

MessageFrame(frameId, subj, data) ==
  [kind |-> Message, subject |-> subj, data |-> data, frameId |-> frameId]

AckFrame(frameId, ackFrameId) ==
  [kind |-> Ack, ackFrameId |-> ackFrameId, frameId |-> frameId]

ErrorFrame(frameId, code, message) ==
  [kind |-> Error, code |-> code, message |-> message, frameId |-> frameId]

ErrorFrameWith(frameId, code, message, details) ==
  [kind |-> Error, code |-> code, message |-> message, details |-> details,
   frameId |-> frameId]

(* encodeFramePayload, case FrameKind.Control *)
encodeControl_anyData(cf) ==
  IF cf.op \in {Handshake, Ping, Pong, Close}
    THEN Return(<<cf.op>> \o (IF Has(cf, "data") THEN cf.data ELSE <<>>))
    ELSE ProtocolError(InvalidFrame)

encodeControl(cf) ==
  IF cf.op = Handshake THEN
    IF ~Has(cf, "data") \/ Len(cf.data) = 0
      THEN ProtocolError(InvalidFrame)
      ELSE Return(<<cf.op>> \o cf.data)
  ELSE IF cf.op \in {Ping, Pong} THEN
    IF Has(cf, "data") THEN ProtocolError(InvalidFrame)
    ELSE Return(<<cf.op>>)
  ELSE IF cf.op = Close THEN
    IF Has(cf, "data") THEN Return(<<cf.op>> \o cf.data)
    ELSE Return(<<cf.op>>)
  ELSE ProtocolError(InvalidFrame)

(* encodeFramePayload, case FrameKind.Message *)
encodeMessage(mf) ==
  LET subjectBytes == encodeString(mf.subject) IN
  Return(setUint32(Len(subjectBytes)) \o subjectBytes \o mf.data)

(* encodeFramePayload, case FrameKind.Ack *)
encodeAck(af) == Return(af.ackFrameId)

(* encodeFramePayload, case FrameKind.Error *)
encodeError(ef) ==
  LET msgBytes == encodeString(ef.message) IN
  Return(setUint16(ef.code) \o setUint32(Len(msgBytes)) \o msgBytes
         \o (IF Has(ef, "details") THEN ef.details ELSE <<>>))

encodeFramePayload(f) ==
  IF f.kind = Control THEN encodeControl(f)
  ELSE IF f.kind = Message THEN encodeMessage(f)
  ELSE IF f.kind = Ack THEN encodeAck(f)
  ELSE IF f.kind = Error THEN encodeError(f)
  ELSE ProtocolError(InvalidFrame)

encodeFrame(f) ==
  LET payloadBytes == encodeFramePayload(f) IN
  IF ~payloadBytes.ok THEN payloadBytes
  ELSE LET totalSize == HEADER_WITH_FRAME_ID_SIZE + Len(payloadBytes.value)
           buffer == [i \in 1..totalSize |-> IF i = 1 THEN f.kind % 256 ELSE 0]
       IN IF ~Fits(buffer, f.frameId, HEADER_SIZE) THEN RangeError
          ELSE Return(set(set(buffer, f.frameId, HEADER_SIZE),
                          payloadBytes.value, HEADER_WITH_FRAME_ID_SIZE))

(* decodeFramePayload, case FrameKind.Control *)
decodeControl_anyData(payload, base) ==
  IF Len(payload) < 1 THEN ProtocolError(InvalidFrame)
  ELSE IF payload[1] \notin {Handshake, Ping, Pong, Close}
    THEN ProtocolError(InvalidFrame)
  ELSE IF Len(payload) > 1
    THEN Return(ControlFrameWith(base.frameId, payload[1],
                                 slice(payload, 1, Len(payload))))
  ELSE Return(ControlFrame(base.frameId, payload[1]))

decodeControl(payload, base) ==
  IF Len(payload) < 1 THEN ProtocolError(InvalidFrame)
  ELSE LET op == payload[1]
           hasRemaining == Len(payload) > 1
           remainingPayload == slice(payload, 1, Len(payload))
       IN
    IF op = Handshake THEN
      IF ~hasRemaining \/ Len(remainingPayload) = 0
        THEN ProtocolError(InvalidFrame)
        ELSE Return(ControlFrameWith(base.frameId, Handshake, remainingPayload))
    ELSE IF op = Ping THEN
      IF hasRemaining THEN ProtocolError(InvalidFrame)
      ELSE Return(ControlFrame(base.frameId, Ping))
    ELSE IF op = Pong THEN
      IF hasRemaining THEN ProtocolError(InvalidFrame)
      ELSE Return(ControlFrame(base.frameId, Pong))
    ELSE IF op = Close THEN
      IF hasRemaining
        THEN Return(ControlFrameWith(base.frameId, Close, remainingPayload))
        ELSE Return(ControlFrame(base.frameId, Close))
    ELSE ProtocolError(InvalidFrame)

(* decodeFramePayload, case FrameKind.Message *)
decodeMessage(payload, base) ==
  IF Len(payload) < 4 THEN ProtocolError(InvalidFrame)
  ELSE LET subjectLen == getUint32(payload, 0) IN
    IF lengthExceeds(subjectLen, Len(payload) - 4)
      THEN ProtocolError(InvalidFrame)
    ELSE LET rawSubject == decodeString(slice(payload, 4, 4 + toNumber(subjectLen)))
             subj == asSubject(rawSubject)
             framePayload == slice(payload, 4 + toNumber(subjectLen), Len(payload))
         IN IF ~subj.ok THEN subj
            ELSE Return(MessageFrame(base.frameId, subj.value, framePayload))

(* decodeFramePayload, case FrameKind.Ack *)
decodeAck_anyLength(payload, base) ==
  Return(AckFrame(base.frameId, slice(payload, 0, 16)))

decodeAck(payload, base) ==
  IF Len(payload) < 16 THEN ProtocolError(InvalidFrame)
  ELSE IF Len(payload) > 16 THEN ProtocolError(InvalidFrame)
  ELSE LET ackFrameId == asFrameId(slice(payload, 0, 16)) IN
    IF ~ackFrameId.ok THEN ackFrameId
    ELSE Return(AckFrame(base.frameId, ackFrameId.value))

(* decodeFramePayload, case FrameKind.Error *)
decodeError(payload, base) ==
  IF Len(payload) < 6 THEN ProtocolError(InvalidFrame)
  ELSE LET code == getUint16(payload, 0)
           msgLen == getUint32(payload, 2)
       IN
    IF lengthExceeds(msgLen, Len(payload) - 6) THEN ProtocolError(InvalidFrame)
    ELSE LET message == decodeString(slice(payload, 6, 6 + toNumber(msgLen))) IN
      IF Len(payload) > 6 + toNumber(msgLen)
        THEN Return(ErrorFrameWith(base.frameId, code, message,
                                   slice(payload, 6 + toNumber(msgLen), Len(payload))))
        ELSE Return(ErrorFrame(base.frameId, code, message))

decodeFramePayload(frameKind, payload, base) ==
  IF frameKind = Control THEN decodeControl(payload, base)
  ELSE IF frameKind = Message THEN decodeMessage(payload, base)
  ELSE IF frameKind = Ack THEN decodeAck(payload, base)
  ELSE IF frameKind = Error THEN decodeError(payload, base)
  ELSE ProtocolError(InvalidFrame)

decodeFrame(buffer) ==
  IF Len(buffer) < HEADER_WITH_FRAME_ID_SIZE THEN ProtocolError(InvalidFrame)
  ELSE LET frameKind == buffer[1]
           flags == buffer[2]
       IN
    IF flags # 0 THEN ProtocolError(InvalidFrame)
    ELSE IF Len(buffer) < HEADER_SIZE + FRAME_ID_SIZE THEN ProtocolError(InvalidFrame)
    ELSE LET frameId == asFrameId(slice(buffer, HEADER_SIZE, HEADER_SIZE + FRAME_ID_SIZE)) IN
      IF ~frameId.ok THEN frameId
      ELSE decodeFramePayload(frameKind,
                              slice(buffer, HEADER_WITH_FRAME_ID_SIZE, Len(buffer)),
                              [frameId |-> frameId.value])

----------------------------------------------------------------------------
(* The values a caller hands to the frame codec *)

MaxData == 2

DataBytes == {0, 255}

(* Opaque byte strings of up to MaxData bytes *)
Datas == UNION {[1..n -> DataBytes] : n \in 0..MaxData}

Repeat(ch, n) == [i \in 1..n |-> ch]

(* "rpc/", "app/e-acute", "event/x" *)
ValidSubjects ==
  { <<114, 112, 99, 47>>, <<97, 112, 112, 47, 233>>,
    <<101, 118, 101, 110, 116, 47, 120>> }

(* "", "e", "e-acute euro", and a text that starts with U+FEFF *)
Messages == { <<>>, <<101>>, <<233, 8364>>, <<65279, 101>> }

ErrorCodes == {ProtocolViolation, UnsupportedVersion, InvalidFrame, ApplicationError}

(* A Ping, and a Message with subject "rpc/echo" and data "hello" *)
ScenarioFrames ==
  { ControlFrame(SampleId, Ping),
    MessageFrame(SampleId, <<114, 112, 99, 47, 101, 99, 104, 111>>,
                 <<104, 101, 108, 108, 111>>) }

(* Frames as the factories of frames.ts and the Frame type allow them *)
ValidFrames ==
  ScenarioFrames \cup
  UNION { {ControlFrameWith(id, Handshake, d) : d \in Datas \ {<<>>}}
          \cup {ControlFrame(id, Ping), ControlFrame(id, Pong), ControlFrame(id, Close)}
          \cup {ControlFrameWith(id, Close, d) : d \in Datas}
          \cup {MessageFrame(id, s, d) : s \in ValidSubjects, d \in Datas}
          \cup {AckFrame(id, a) : a \in Cids}
          \cup {ErrorFrame(id, c, m) : c \in ErrorCodes, m \in Messages}
          \cup {ErrorFrameWith(id, c, m, d) : c \in ErrorCodes, m \in Messages, d \in Datas}
        : id \in Cids }

(* Byte strings that are not frame identifiers: 0, 15, 17 and 32 bytes *)
BadIds ==
  { <<>>, SubSeq(MkCid(1), 1, FRAME_ID_SIZE - 1), MkCid(1) \o <<7>>,
    MkCid(1) \o MkCid(2) }

(* "", "rpc", "RPC/", "foo/x", "rpc/" NUL, and 257 bytes after "app/" *)
BadSubjects ==
  { <<>>, <<114, 112, 99>>, <<82, 80, 67, 47>>, <<102, 111, 111, 47, 120>>,
    <<114, 112, 99, 47, 0>>,
    <<97, 112, 112, 47>> \o Repeat(97, MAX_SUBJECT_BYTES - 3) }

(* Frames that break a per-variant rule, as a caller can build them from   *)
(* an external source or with a cast.                                      *)
InvalidFrames ==
  {ControlFrame(MkCid(1), Handshake), ControlFrameWith(MkCid(1), Handshake, <<>>)}
  \cup {ControlFrameWith(MkCid(1), op, d) : op \in {Ping, Pong}, d \in Datas}
  \cup {ControlFrame(MkCid(1), 4), ControlFrameWith(MkCid(1), 4, <<1>>)}
  \cup {[kind |-> 4, frameId |-> MkCid(1)]}
  \cup {MessageFrame(MkCid(1), s, d) : s \in BadSubjects, d \in Datas}
  \cup {AckFrame(MkCid(1), a) : a \in BadIds}
  \cup UNION { {ControlFrame(id, Ping), ControlFrame(id, Close),
                ControlFrameWith(id, Handshake, <<1>>),
                MessageFrame(id, <<114, 112, 99, 47>>, <<>>),
                AckFrame(id, MkCid(1)),
                ErrorFrame(id, InvalidFrame, <<101>>)} : id \in BadIds }

Frames == ValidFrames \cup InvalidFrames

----------------------------------------------------------------------------
(* The buffers a peer hands to decodeFrame *)

Header(kind, flags, id) == <<kind, flags>> \o id

(* Every single reserved bit, and all of them *)
Flags == {1, 2, 4, 8, 16, 32, 64, 128, 255}

(* One well-formed payload of each kind *)
SamplePayload(kind) ==
  IF kind = Control THEN <<Ping>>
  ELSE IF kind = Message THEN setUint32(4) \o <<114, 112, 99, 47>>
  ELSE IF kind = Ack THEN MkCid(2)
  ELSE setUint16(InvalidFrame) \o setUint32(1) \o <<101>>

ShortBuffers ==
  { SubSeq(Header(k, 0, MkCid(1)) \o SamplePayload(k), 1, n)
    : k \in 0..3, n \in {0, 1, 2, HEADER_WITH_FRAME_ID_SIZE - 1} }

FlaggedBuffers ==
  { Header(k, fl, MkCid(1)) \o SamplePayload(k) : k \in 0..3, fl \in Flags }

UnknownKindBuffers ==
  { Header(k, 0, MkCid(1)) \o p
    : k \in {4, 5, 128, 255}, p \in {SamplePayload(j) : j \in 0..3} \cup {<<>>} }

ControlBuffers ==
  { Header(Control, 0, id) \o p
    : id \in Cids,
      p \in {<<>>} \cup {<<op>> \o d : op \in {0, 1, 2, 3, 4, 255}, d \in Datas} }

AckBuffers ==
  { Header(Ack, 0, MkCid(1)) \o SubSeq(MkCid(2) \o MkCid(1), 1, n)
    : n \in {0, 1, FRAME_ID_SIZE - 1, FRAME_ID_SIZE, FRAME_ID_SIZE + 1, 2 * FRAME_ID_SIZE} }

(* The bytes of a string field: "", "app/", "rpc/x", "foo/", "e",          *)
(* "e-acute"; then malformed: "rpc/" FF, FF FE, a lone lead byte C3, an    *)
(* overlong C0 80, and a surrogate ED A0 80.                               *)
WellFormedTexts ==
  { <<>>, <<97, 112, 112, 47>>, <<114, 112, 99, 47, 120>>, <<102, 111, 111, 47>>,
    <<101>>, <<195, 169>>, <<114, 112, 99, 47, 195, 169>> }

MalformedTexts ==
  { <<114, 112, 99, 47, 255>>, <<255, 254>>, <<195>>, <<114, 112, 99, 47, 195>>,
    <<192, 128>>, <<97, 112, 112, 47, 237, 160, 128>> }

Texts == WellFormedTexts \cup MalformedTexts

(* The length of the longest of them *)
MaxText == CHOOSE n \in 0..64 : (\A t \in Texts : Len(t) <= n) /\ (\E t \in Texts : Len(t) = n)

(* Four length bytes as a peer may send them: every length up to one more  *)
(* than the longest body, and lengths of 2^8, 2^16, 2^24 and more.         *)
LengthFields ==
  { <<b0>> \o h : b0 \in 0..(MaxText + MaxData + 1) \cup {252, 255},
                  h \in { <<0, 0, 0>>, <<1, 0, 0>>, <<0, 1, 0>>, <<0, 0, 1>>,
                          <<255, 255, 255>> } }

Bodies == { t \o d : t \in Texts, d \in Datas }

MessageBuffers ==
  { Header(Message, 0, MkCid(1)) \o l \o b : l \in LengthFields, b \in Bodies }
  \cup { Header(Message, 0, MkCid(1)) \o SubSeq(<<4, 0, 0>>, 1, n) : n \in 0..3 }

ErrorBuffers ==
  { Header(Error, 0, MkCid(1)) \o setUint16(c) \o l \o b
    : c \in {InvalidFrame, 65535}, l \in LengthFields, b \in Bodies }
  \cup { Header(Error, 0, MkCid(1)) \o SubSeq(<<234, 3, 0, 0, 0>>, 1, n) : n \in 0..5 }

(* Subjects around every rule of the validator: a prefix, then a run of    *)
(* one character of 1, 2, 3 or 4 bytes (or NUL) that ends just below or    *)
(* just above the limit.                                                   *)
Prefixes ==
  RESERVED_SUBJECT_PREFIXES
  \cup { <<>>, <<114, 112, 99>>, <<82, 80, 67, 47>>, <<102, 111, 111, 47>>,
         <<32, 114, 112, 99, 47>> }

(* "a", e-acute, euro sign, an emoji, NUL *)
FillChars == {97, 233, 8364, 128512, 0}

FillCounts ==
  {0, 1} \cup { (MAX_SUBJECT_BYTES - 4) \div w + d : w \in 1..4, d \in {0, 1} }

Subjects == { p \o Repeat(ch, n) : p \in Prefixes, ch \in FillChars, n \in FillCounts }

SubjectBuffers ==
  { Header(Message, 0, MkCid(1)) \o setUint32(Len(encodeString(s)))
      \o encodeString(s) \o <<255>> : s \in Subjects }

Buffers ==
  ShortBuffers \cup FlaggedBuffers \cup UnknownKindBuffers \cup ControlBuffers
  \cup AckBuffers \cup MessageBuffers \cup ErrorBuffers \cup SubjectBuffers

----------------------------------------------------------------------------
(* The caller of the frame codec: it holds a frame and encodes it, decodes *)
(* the bytes it has, or validates a subject.                               *)

CodecInit ==
  /\ EngineInit
  /\ RpcIdle
  /\ OthersIdle
  /\ decoded = NotCalled
  /\ validated = NotCalled
  /\ \/ /\ frame \in Frames
        /\ encoded = NotCalled
        /\ subject = NotCalled
     \/ /\ frame = NotCalled
        /\ encoded \in {Return(b) : b \in Buffers}
        /\ subject = NotCalled
     \/ /\ frame = NotCalled
        /\ encoded = NotCalled
        /\ subject \in {[value |-> s] : s \in Subjects}

Encode ==
  /\ frame # NotCalled
  /\ encoded = NotCalled
  /\ encoded' = encodeFrame(frame)
  /\ UNCHANGED <<frame, decoded, subject, validated, engineVars, rpcVars, otherVars>>

Decode ==
  /\ encoded.ok
  /\ decoded = NotCalled
  /\ decoded' = decodeFrame(encoded.value)
  /\ UNCHANGED <<frame, encoded, subject, validated, engineVars, rpcVars, otherVars>>

Validate ==
  /\ subject # NotCalled
  /\ validated = NotCalled
  /\ validated' = asSubject(subject.value)
  /\ UNCHANGED <<frame, encoded, decoded, subject, engineVars, rpcVars, otherVars>>

CodecNext == Encode \/ Decode \/ Validate

CodecSpec == CodecInit /\ [][CodecNext]_vars

----------------------------------------------------------------------------
(* Vocabulary of the frame codec's properties *)

(* The caller has the result of decodeFrame for the bytes in `encoded` *)
DecodeDone == encoded.ok /\ decoded # NotCalled

(* The caller has the result of encodeFrame for `frame` *)
EncodeDone == frame # NotCalled /\ encoded # NotCalled

(* The bytes came from a peer, not from encodeFrame *)
FromPeer == frame = NotCalled

HeaderAccepted(b) == Len(b) >= HEADER_WITH_FRAME_ID_SIZE /\ b[2] = 0

PayloadOf(b) == SubSeq(b, HEADER_WITH_FRAME_ID_SIZE + 1, Len(b))

Rejected_InvalidFrame(r) == r = ProtocolError(InvalidFrame)

Rejected_ProtocolViolation(r) == r = ProtocolError(ProtocolViolation)

(* The 32-bit little-endian length at p[off+1..off+4] is more than n, for  *)
(* n below 2^16.                                                           *)
DeclaredMoreThan(p, off, n) ==
  p[off + 4] > 0 \/ p[off + 3] > 0 \/ p[off + 1] + (256 * p[off + 2]) > n

(* That length, when it is below 2^16 *)
Declared(p, off) == p[off + 1] + (256 * p[off + 2])

(* The number of bytes of a string in UTF-8: 1 to 4 for each code point *)
Utf8Length(s) ==
  Len(s) + Cardinality({i \in 1..Len(s) : s[i] >= 128})
         + Cardinality({i \in 1..Len(s) : s[i] >= 2048})
         + Cardinality({i \in 1..Len(s) : s[i] >= 65536})

(* The subject rule of the specification *)
SubjectOk(s) ==
  /\ Utf8Length(s) \in 1..MAX_SUBJECT_BYTES
  /\ \A i \in 1..Len(s) : s[i] # 0
  /\ \E p \in RESERVED_SUBJECT_PREFIXES :
       Len(s) >= Len(p) /\ \A i \in 1..Len(p) : s[i] = p[i]

(* The bytes are the UTF-8 form of some text *)
WellFormedUtf8(bs) == TextEncoder_encode(utf8Decode(bs)) = bs

----------------------------------------------------------------------------
(* C11: for every valid frame F of any kind, decodeFrame(encodeFrame(F))   *)
(* equals F: the same kind, the same frame identifier and the same payload *)
(* fields.  (The code breaks this for a Close reason or Error details that *)
(* are present and empty, and for an Error message that starts with        *)
(* U+FEFF.)                                                                *)
C11_RoundTrip ==
  (frame # NotCalled /\ frame \in ValidFrames) =>
    /\ (encoded # NotCalled => encoded.ok)
    /\ (DecodeDone => decoded = Return(frame))

C13_LengthGuard ==
  (DecodeDone /\ HeaderAccepted(encoded.value)) =>
    LET p == PayloadOf(encoded.value)
        kind == encoded.value[1]
    IN
    /\ (kind = Message /\ Len(p) >= 4) =>
         IF DeclaredMoreThan(p, 0, Len(p) - 4)
           THEN Rejected_InvalidFrame(decoded)
           ELSE LET n == Declared(p, 0) IN
                \/ Rejected_ProtocolViolation(decoded)
                \/ /\ decoded.ok
                   /\ decoded.value.subject = decodeString(SubSeq(p, 5, 4 + n))
                   /\ decoded.value.data = SubSeq(p, 5 + n, Len(p))
    /\ (kind = Error /\ Len(p) >= 6) =>
         IF DeclaredMoreThan(p, 2, Len(p) - 6)
           THEN Rejected_InvalidFrame(decoded)
           ELSE LET n == Declared(p, 2) IN
                /\ decoded.ok
                /\ decoded.value.message = decodeString(SubSeq(p, 7, 6 + n))
                /\ IF Len(p) > 6 + n
                     THEN /\ Has(decoded.value, "details")
                          /\ decoded.value.details = SubSeq(p, 7 + n, Len(p))
                     ELSE ~Has(decoded.value, "details")

(* A Message whose length field says 2^24 or more has been refused *)
C13_Witness ==
  /\ FromPeer /\ DecodeDone /\ HeaderAccepted(encoded.value)
  /\ encoded.value[1] = Message
  /\ Len(PayloadOf(encoded.value)) > 4
  /\ PayloadOf(encoded.value)[4] > 0
  /\ Rejected_InvalidFrame(decoded)

(* C14: decodeFrame of a Control frame fails with InvalidFrame when the op *)
(* byte is missing, when the op is Handshake and no data byte follows,     *)
(* when the op is Ping or Pong and any byte follows, and when the op is    *)
(* not one of 0..3; for Close any remaining bytes, none included, are      *)
(* accepted.                                                               *)
C14_ControlRules ==
  (DecodeDone /\ HeaderAccepted(encoded.value) /\ encoded.value[1] = Control) =>
    LET p == PayloadOf(encoded.value) IN
    IF Len(p) = 0 THEN Rejected_InvalidFrame(decoded)
    ELSE /\ (p[1] = Handshake /\ Len(p) = 1) => Rejected_InvalidFrame(decoded)
         /\ (p[1] \in {Ping, Pong} /\ Len(p) > 1) => Rejected_InvalidFrame(decoded)
         /\ (p[1] \notin 0..3) => Rejected_InvalidFrame(decoded)
         /\ (p[1] = Close) => /\ decoded.ok
                              /\ decoded.value.kind = Control
                              /\ decoded.value.op = Close

(* A Pong followed by a byte has been refused *)
C14_Witness ==
  /\ FromPeer /\ DecodeDone /\ HeaderAccepted(encoded.value)
  /\ encoded.value[1] = Control
  /\ Len(PayloadOf(encoded.value)) = 2
  /\ PayloadOf(encoded.value)[1] = Pong
  /\ Rejected_InvalidFrame(decoded)

(* C15: encodeFrame fails with InvalidFrame for a Handshake frame whose    *)
(* data is absent or empty and for a Ping or Pong frame that carries data, *)
(* so decodeFrame refuses no output of encodeFrame for a Control frame.    *)
C15_EncodeControlRules ==
  (EncodeDone /\ frame.kind = Control) =>
    /\ (frame.op = Handshake /\ (~Has(frame, "data") \/ frame.data = <<>>))
         => Rejected_InvalidFrame(encoded)
    /\ (frame.op \in {Ping, Pong} /\ Has(frame, "data"))
         => Rejected_InvalidFrame(encoded)
    /\ DecodeDone => decoded.ok

(* A Ping that carries data has been refused by encodeFrame *)
C15_Witness ==
  /\ EncodeDone /\ frame.kind = Control
  /\ frame.op = Ping /\ Has(frame, "data")
  /\ Rejected_InvalidFrame(encoded)

(* C16: encodeFrame revalidates what it writes: for a Message frame whose  *)
(* subject fails the subject validator, and for any frame whose frame      *)
(* identifier (or, for Ack, target identifier) is not exactly 16 bytes, it *)
(* fails with InvalidFrame instead of returning bytes.  (The code checks   *)
(* neither.)                                                               *)
C16_EncodeRevalidates ==
  ( /\ EncodeDone
    /\ frame.kind \in {Control, Message, Ack, Error}
    /\ \/ (frame.kind = Message /\ ~SubjectOk(frame.subject))
       \/ Len(frame.frameId) # 16
       \/ (frame.kind = Ack /\ Len(frame.ackFrameId) # 16) )
  => Rejected_InvalidFrame(encoded)

(* C17: asSubject(s) returns s unchanged exactly when s has 1 to 256 bytes *)
(* in UTF-8 (bytes, not characters), contains no null character and starts *)
(* with rpc/, event/, stream/ or app/, and fails with ProtocolViolation    *)
(* for every other s; decodeFrame of a Message whose subject breaks the    *)
(* rule fails with ProtocolViolation.                                      *)
C17_SubjectRule ==
  /\ (subject # NotCalled /\ validated # NotCalled) =>
       IF SubjectOk(subject.value)
         THEN validated = Return(subject.value)
         ELSE Rejected_ProtocolViolation(validated)
  /\ (DecodeDone /\ HeaderAccepted(encoded.value) /\ encoded.value[1] = Message
        /\ Len(PayloadOf(encoded.value)) >= 4
        /\ ~DeclaredMoreThan(PayloadOf(encoded.value), 0,
                             Len(PayloadOf(encoded.value)) - 4)) =>
       LET p == PayloadOf(encoded.value)
           s == decodeString(SubSeq(p, 5, 4 + Declared(p, 0)))
       IN IF SubjectOk(s)
            THEN decoded.ok /\ decoded.value.subject = s
            ELSE Rejected_ProtocolViolation(decoded)

(* A subject of exactly 256 bytes in fewer than 256 characters has been    *)
(* accepted.                                                               *)
C17_Witness ==
  /\ subject # NotCalled /\ validated # NotCalled
  /\ Utf8Length(subject.value) = MAX_SUBJECT_BYTES
  /\ Len(subject.value) < MAX_SUBJECT_BYTES
  /\ validated = Return(subject.value)

(* C18: decodeFrame fails with InvalidFrame whenever the bytes of a string *)
(* field (the Message subject or the Error message) are not valid UTF-8.   *)
(* (The code decodes them with a TextDecoder that is not fatal and puts    *)
(* U+FFFD in the string.)                                                  *)
C18_RejectsMalformedText ==
  (DecodeDone /\ HeaderAccepted(encoded.value)) =>
    LET p == PayloadOf(encoded.value)
        kind == encoded.value[1]
    IN
    /\ (kind = Message /\ Len(p) >= 4 /\ ~DeclaredMoreThan(p, 0, Len(p) - 4)
          /\ ~WellFormedUtf8(SubSeq(p, 5, 4 + Declared(p, 0))))
         => Rejected_InvalidFrame(decoded)
    /\ (kind = Error /\ Len(p) >= 6 /\ ~DeclaredMoreThan(p, 2, Len(p) - 6)
          /\ ~WellFormedUtf8(SubSeq(p, 7, 6 + Declared(p, 2))))
         => Rejected_InvalidFrame(decoded)


----------------------------------------------------------------------------
(* RPC envelope codec: packages/rpc/src/codec.ts.  A JavaScript value is a  *)
(* record that carries its type; an object keeps its own properties in     *)
(* insertion order; a text is a sequence of code points.                   *)

undefined == [type |-> "undefined"]

null == [type |-> "null"]

Bool(b) == [type |-> "boolean", bool |-> b]

Num(n) == [type |-> "number", num |-> n]

Str(s) == [type |-> "string", str |-> s]

Arr(items) == [type |-> "array", items |-> items]

Obj(members) == [type |-> "object", members |-> members]

Uint8Array(b) == [type |-> "Uint8Array", bytes |-> b]

Member(key, value) == [key |-> key, value |-> value]

(* typeof v *)
typeof(v) ==
  IF v.type \in {"null", "array", "object", "Uint8Array"} THEN "object" ELSE v.type

(* key in o, for an object o *)
In(key, o) ==
  o.type = "object" /\ \E i \in 1..Len(o.members) : o.members[i].key = key

(* o[key]: undefined when o has no such property *)
Get(o, key) ==
  IF In(key, o)
    THEN o.members[CHOOSE i \in 1..Len(o.members) : o.members[i].key = key].value
    ELSE undefined

(* o[key] = value on a list of properties: a property keeps its place *)
PutMember(members, key, value) ==
  IF \E i \in 1..Len(members) : members[i].key = key
    THEN [i \in 1..Len(members) |->
            IF members[i].key = key THEN Member(key, value) ELSE members[i]]
    ELSE Append(members, Member(key, value))

(* The property names of the envelope: t, cid, m, p, result, code,         *)
(* message, data, e, d                                                     *)
K_t == <<116>>
K_cid == <<99, 105, 100>>
K_m == <<109>>
K_p == <<112>>
K_result == <<114, 101, 115, 117, 108, 116>>
K_code == <<99, 111, 100, 101>>
K_message == <<109, 101, 115, 115, 97, 103, 101>>
K_data == <<100, 97, 116, 97>>
K_e == <<101>>
K_d == <<100>>

(* The pieces of a sequence of sequences, in order (computed by halves) *)
RECURSIVE Concat(_)
Concat(parts) ==
  IF Len(parts) = 0 THEN <<>>
  ELSE IF Len(parts) = 1 THEN parts[1]
  ELSE LET mid == Len(parts) \div 2 IN
       Concat(SubSeq(parts, 1, mid)) \o Concat(SubSeq(parts, mid + 1, Len(parts)))

(* Array.prototype.join(",") *)
JoinComma(parts) ==
  Concat([i \in 1..Len(parts) |-> IF i = 1 THEN parts[i] ELSE <<44>> \o parts[i]])

hexChar_uppercase(d) == IF d < 10 THEN 48 + d ELSE 55 + d

(* A hexadecimal digit, lowercase *)
hexChar(d) == IF d < 10 THEN 48 + d ELSE 87 + d

hexByte_unpadded(b) ==
  IF b < 16 THEN <<hexChar(b)>> ELSE <<hexChar(b \div 16), hexChar(b % 16)>>

(* b.toString(16).padStart(2, "0") *)
hexByte(b) == <<hexChar(b \div 16), hexChar(b % 16)>>

frameIdToHex(id) == Concat([i \in 1..Len(id) |-> hexByte(id[i])])

IsLowerHex(c) == c \in 48..57 \/ c \in 97..102

IsHex(c) == IsLowerHex(c) \/ c \in 65..70

hexValue(c) ==
  IF c \in 48..57 THEN c - 48 ELSE IF c \in 97..102 THEN c - 87 ELSE c - 55

(* What a plain `throw new Error(...)` and a SyntaxError of the host are *)
PlainError == [ok |-> FALSE, name |-> "Error", code |-> 0]

SyntaxError == [ok |-> FALSE, name |-> "SyntaxError", code |-> 0]

frameIdFromHex_anyCase(hex) ==
  IF Len(hex) # 32 \/ \E i \in 1..Len(hex) : ~IsHex(hex[i]) THEN PlainError
  ELSE asFrameId([i \in 1..FRAME_ID_SIZE |->
                    (16 * hexValue(hex[(2 * i) - 1])) + hexValue(hex[2 * i])])

frameIdFromHex(hex) ==
  IF Len(hex) # 32 \/ \E i \in 1..Len(hex) : ~IsLowerHex(hex[i]) THEN PlainError
  ELSE asFrameId([i \in 1..FRAME_ID_SIZE |->
                    (16 * hexValue(hex[(2 * i) - 1])) + hexValue(hex[2 * i])])

----------------------------------------------------------------------------
(* JSON.stringify of the host *)

RECURSIVE digits(_)
digits(n) == IF n < 10 THEN <<48 + n>> ELSE digits(n \div 10) \o <<48 + (n % 10)>>

(* Number.prototype.toString for an integer *)
numberText(n) == IF n < 0 THEN <<45>> \o digits(0 - n) ELSE digits(n)

hex4(c) ==
  <<hexChar(c \div 4096), hexChar((c \div 256) % 16),
    hexChar((c \div 16) % 16), hexChar(c % 16)>>

(* One character inside a string literal: quote, backslash and control    *)
(* characters are escaped, and so is a lone surrogate.                     *)
escapeChar(c) ==
  IF c = 34 THEN <<92, 34>>
  ELSE IF c = 92 THEN <<92, 92>>
  ELSE IF c = 8 THEN <<92, 98>>
  ELSE IF c = 9 THEN <<92, 116>>
  ELSE IF c = 10 THEN <<92, 110>>
  ELSE IF c = 12 THEN <<92, 102>>
  ELSE IF c = 13 THEN <<92, 114>>
  ELSE IF c < 32 \/ c \in 55296..57343 THEN <<92, 117>> \o hex4(c)
  ELSE <<c>>

quote(s) == <<34>> \o Concat([i \in 1..Len(s) |-> escapeChar(s[i])]) \o <<34>>

Defined(members) == SelectSeq(members, LAMBDA mb : mb.value.type # "undefined")

(* JSON.stringify(v) for a value that is not undefined: a property whose   *)
(* value is undefined is left out, an undefined array item is null.        *)
RECURSIVE stringify(_)
stringify_nullForUndefined(v) ==
  IF v.type = "null" \/ v.type = "undefined" THEN <<110, 117, 108, 108>>
  ELSE IF v.type = "boolean" THEN (IF v.bool THEN <<116, 114, 117, 101>> ELSE <<102, 97, 108, 115, 101>>)
  ELSE IF v.type = "number" THEN numberText(v.num)
  ELSE IF v.type = "string" THEN quote(v.str)
  ELSE IF v.type = "array"
    THEN <<91>> \o JoinComma([i \in 1..Len(v.items) |-> stringify(v.items[i])]) \o <<93>>
  ELSE <<123>>
       \o JoinComma([i \in 1..Len(v.members) |->
                       quote(v.members[i].key) \o <<58>>
                         \o stringify(v.members[i].value)])
       \o <<125>>

stringify(v) ==
  IF v.type = "null" \/ v.type = "undefined" THEN <<110, 117, 108, 108>>
  ELSE IF v.type = "boolean" THEN (IF v.bool THEN <<116, 114, 117, 101>> ELSE <<102, 97, 108, 115, 101>>)
  ELSE IF v.type = "number" THEN numberText(v.num)
  ELSE IF v.type = "string" THEN quote(v.str)
  ELSE IF v.type = "array"
    THEN <<91>> \o JoinComma([i \in 1..Len(v.items) |-> stringify(v.items[i])]) \o <<93>>
  ELSE <<123>>
       \o JoinComma([i \in 1..Len(Defined(v.members)) |->
                       quote(Defined(v.members)[i].key) \o <<58>>
                         \o stringify(Defined(v.members)[i].value)])
       \o <<125>>

----------------------------------------------------------------------------
(* JSON.parse of the host: a recursive-descent reader over the text.  A    *)
(* reader returns the value and the position after it, or fails.           *)

WS == {32, 9, 10, 13}

EOF == 0 - 1

At(txt, i) == IF i \in 1..Len(txt) THEN txt[i] ELSE EOF

(* The first position from i on that holds no white space *)
skipWs(txt, i) ==
  CHOOSE j \in i..(Len(txt) + 1) :
    /\ At(txt, j) \notin WS
    /\ \A k \in i..(j - 1) : At(txt, k) \in WS

Fail == [ok |-> FALSE]

Ok(v, next) == [ok |-> TRUE, value |-> v, next |-> next]

IsDigit(c) == c \in 48..57

(* The first position from i on that holds no digit *)
skipDigits(txt, i) ==
  CHOOSE j \in i..(Len(txt) + 1) :
    /\ ~IsDigit(At(txt, j))
    /\ \A k \in i..(j - 1) : IsDigit(At(txt, k))

RECURSIVE digitsValue(_, _, _)
digitsValue(txt, from, to) ==
  IF to < from THEN 0
  ELSE (10 * digitsValue(txt, from, to - 1)) + (txt[to] - 48)

(* A number: an optional minus sign, an integer part without a leading    *)
(* zero, an optional fraction and an optional exponent.  A number with a   *)
(* fraction or an exponent keeps its literal.                              *)
parseNumber(txt, i) ==
  LET s == IF At(txt, i) = 45 THEN i + 1 ELSE i
      e == IF At(txt, s) = 48 THEN s + 1 ELSE skipDigits(txt, s)
      f == IF At(txt, e) = 46 THEN skipDigits(txt, e + 1) ELSE e
      x == IF At(txt, f) \in {101, 69}
             THEN (IF At(txt, f + 1) \in {43, 45} THEN f + 2 ELSE f + 1)
             ELSE f
      g == IF x = f THEN f ELSE skipDigits(txt, x)
      int == digitsValue(txt, s, e - 1)
  IN  IF e = s THEN Fail
      ELSE IF At(txt, e) = 46 /\ f = e + 1 THEN Fail
      ELSE IF x # f /\ g = x THEN Fail
      ELSE IF g = e THEN Ok(Num(IF s = i THEN int ELSE 0 - int), g)
      ELSE Ok([type |-> "number", num |-> int, literal |-> SubSeq(txt, i, g - 1)], g)

(* The character an escape \c stands for; EOF when there is none *)
unescapeChar(c) ==
  IF c \in {34, 92, 47} THEN c
  ELSE IF c = 98 THEN 8
  ELSE IF c = 102 THEN 12
  ELSE IF c = 110 THEN 10
  ELSE IF c = 114 THEN 13
  ELSE IF c = 116 THEN 9
  ELSE EOF

(* The characters of a string literal's body from k on; fails on a control *)
(* character and on an escape that is none.                                *)
RECURSIVE unescape(_, _)
unescape(raw, k) ==
  IF k > Len(raw) THEN [ok |-> TRUE, value |-> <<>>]
  ELSE IF raw[k] < 32 THEN Fail
  ELSE IF raw[k] # 92
    THEN LET rest == unescape(raw, k + 1) IN
         IF rest.ok THEN [ok |-> TRUE, value |-> <<raw[k]>> \o rest.value] ELSE Fail
  ELSE IF At(raw, k + 1) = 117
    THEN IF \A j \in (k + 2)..(k + 5) : IsHex(At(raw, j))
           THEN LET rest == unescape(raw, k + 6)
                    c == (4096 * hexValue(raw[k + 2])) + (256 * hexValue(raw[k + 3]))
                           + (16 * hexValue(raw[k + 4])) + hexValue(raw[k + 5])
                IN  IF rest.ok THEN [ok |-> TRUE, value |-> <<c>> \o rest.value] ELSE Fail
           ELSE Fail
  ELSE IF unescapeChar(At(raw, k + 1)) = EOF THEN Fail
  ELSE LET rest == unescape(raw, k + 2) IN
       IF rest.ok
         THEN [ok |-> TRUE, value |-> <<unescapeChar(raw[k + 1])>> \o rest.value]
         ELSE Fail

(* Two halves of a surrogate pair written as two \u escapes are one        *)
(* character of the string.                                                *)
RECURSIVE joinSurrogates(_)
joinSurrogates(s) ==
  IF Len(s) < 2 THEN s
  ELSE IF s[1] \in 55296..56319 /\ s[2] \in 56320..57343
    THEN <<65536 + ((s[1] - 55296) * 1024) + (s[2] - 56320)>>
           \o joinSurrogates(SubSeq(s, 3, Len(s)))
  ELSE <<s[1]>> \o joinSurrogates(Tail(s))

(* The quote at j closes the literal opened at i when an even number of    *)
(* backslashes stands right before it.                                     *)
Closes(txt, i, j) ==
  /\ txt[j] = 34
  /\ LET k == CHOOSE k \in i..(j - 1) :
                /\ txt[k] # 92 \/ k = i
                /\ \A l \in (k + 1)..(j - 1) : txt[l] = 92
     IN  ((j - 1) - k) % 2 = 0

parseString(txt, i) ==
  LET closers == {j \in (i + 1)..Len(txt) : Closes(txt, i, j)} IN
  IF At(txt, i) # 34 \/ closers = {} THEN Fail
  ELSE LET j == CHOOSE j \in closers : \A k \in closers : j <= k
           body == unescape(SubSeq(txt, i + 1, j - 1), 1)
       IN  IF body.ok THEN Ok(Str(joinSurrogates(body.value)), j + 1) ELSE Fail

parseLiteral(txt, i, word, v) ==
  IF (i + Len(word)) - 1 <= Len(txt) /\ SubSeq(txt, i, (i + Len(word)) - 1) = word
    THEN Ok(v, i + Len(word))
    ELSE Fail

RECURSIVE parseValue(_, _)
RECURSIVE parseMembers(_, _, _)
RECURSIVE parseItems(_, _, _)

(* The members of an object up to its closing brace; a repeated key keeps  *)
(* its last value.                                                         *)
parseMembers(txt, i, acc) ==
  LET k == parseString(txt, i) IN
  IF ~k.ok THEN Fail
  ELSE LET c == skipWs(txt, k.next) IN
       IF At(txt, c) # 58 THEN Fail
       ELSE LET v == parseValue(txt, skipWs(txt, c + 1)) IN
            IF ~v.ok THEN Fail
            ELSE LET n == skipWs(txt, v.next)
                     members == PutMember(acc, k.value.str, v.value)
                 IN  IF At(txt, n) = 44 THEN parseMembers(txt, skipWs(txt, n + 1), members)
                     ELSE IF At(txt, n) = 125 THEN Ok(Obj(members), n + 1)
                     ELSE Fail

(* The items of an array up to its closing bracket *)
parseItems(txt, i, acc) ==
  LET v == parseValue(txt, i) IN
  IF ~v.ok THEN Fail
  ELSE LET n == skipWs(txt, v.next) IN
       IF At(txt, n) = 44 THEN parseItems(txt, skipWs(txt, n + 1), Append(acc, v.value))
       ELSE IF At(txt, n) = 93 THEN Ok(Arr(Append(acc, v.value)), n + 1)
       ELSE Fail

parseValue(txt, i) ==
  LET c == At(txt, i) IN
  IF c = 123
    THEN (IF At(txt, skipWs(txt, i + 1)) = 125
            THEN Ok(Obj(<<>>), skipWs(txt, i + 1) + 1)
            ELSE parseMembers(txt, skipWs(txt, i + 1), <<>>))
  ELSE IF c = 91
    THEN (IF At(txt, skipWs(txt, i + 1)) = 93
            THEN Ok(Arr(<<>>), skipWs(txt, i + 1) + 1)
            ELSE parseItems(txt, skipWs(txt, i + 1), <<>>))
  ELSE IF c = 34 THEN parseString(txt, i)
  ELSE IF c = 45 \/ IsDigit(c) THEN parseNumber(txt, i)
  ELSE IF c = 116 THEN parseLiteral(txt, i, <<116, 114, 117, 101>>, Bool(TRUE))
  ELSE IF c = 102 THEN parseLiteral(txt, i, <<102, 97, 108, 115, 101>>, Bool(FALSE))
  ELSE IF c = 110 THEN parseLiteral(txt, i, <<110, 117, 108, 108>>, null)
  ELSE Fail

(* JSON.parse(text): the whole text is one value, or a SyntaxError *)
JSON_parse(txt) ==
  LET r == parseValue(txt, skipWs(txt, 1)) IN
  IF r.ok /\ skipWs(txt, r.next) = Len(txt) + 1 THEN Return(r.value) ELSE SyntaxError

(* JSON.stringify(value), for a value that is not undefined *)
JSON_stringify(v) == Return(stringify(v))

----------------------------------------------------------------------------
(* encodeRpcEnvelope and decodeRpcEnvelope *)

(* { ...envelope } followed by the assignment of a property *)
Spread(o) == o.members

(* /^[0-9a-f]{32}$/i.test(value), for a string *)
isValidHexFrameId(v) ==
  /\ typeof(v) = "string"
  /\ Len(v.str) = 32
  /\ \A i \in 1..Len(v.str) : IsHex(v.str[i])

T_r == <<114>>
T_R == <<82>>
T_E == <<69>>
T_N == <<78>>

Tags == {T_r, T_R, T_E, T_N}

(* Returns as the code returns (nothing), or throws *)
Void == [ok |-> TRUE]

validateEnvelopeStructure(obj) ==
  IF typeof(obj) # "object" \/ obj = null THEN ProtocolError(ProtocolViolation)
  ELSE LET t == Get(obj, K_t) IN
  IF typeof(t) # "string" \/ t.str \notin Tags THEN ProtocolError(ProtocolViolation)
  ELSE IF /\ t.str \in {T_r, T_R, T_E}
          /\ (typeof(Get(obj, K_cid)) # "string" \/ ~isValidHexFrameId(Get(obj, K_cid)))
    THEN ProtocolError(ProtocolViolation)
  ELSE IF t.str = T_r /\ typeof(Get(obj, K_m)) # "string"
    THEN ProtocolError(ProtocolViolation)
  ELSE IF t.str = T_E /\ typeof(Get(obj, K_code)) # "number"
    THEN ProtocolError(ProtocolViolation)
  ELSE IF t.str = T_E /\ typeof(Get(obj, K_message)) # "string"
    THEN ProtocolError(ProtocolViolation)
  ELSE IF t.str = T_N /\ typeof(Get(obj, K_e)) # "string"
    THEN ProtocolError(ProtocolViolation)
  ELSE Void

(* Every exception inside encodeJson becomes a ProtocolViolation; the      *)
(* writer and the encoder of the host do not throw on the values here.     *)
encodeJson(env) ==
  LET envelopeForJson ==
        IF In(K_cid, env)
          THEN Obj(PutMember(Spread(env), K_cid, Str(frameIdToHex(Get(env, K_cid).bytes))))
          ELSE Obj(Spread(env))
      json == JSON_stringify(envelopeForJson)
  IN  IF json.ok THEN Return(TextEncoder_encode(json.value))
      ELSE ProtocolError(ProtocolViolation)

(* A ProtocolError is thrown on as it is; every other exception becomes a  *)
(* ProtocolViolation.                                                      *)
decodeJson(data) ==
  LET json == TextDecoder_decode(data)
      env == JSON_parse(json)
  IN  IF ~env.ok THEN ProtocolError(ProtocolViolation)
      ELSE LET checked == validateEnvelopeStructure(env.value) IN
           IF ~checked.ok THEN checked
           ELSE IF In(K_cid, env.value) /\ typeof(Get(env.value, K_cid)) = "string"
             THEN LET id == frameIdFromHex(Get(env.value, K_cid).str) IN
                  IF id.ok
                    THEN Return(Obj(PutMember(env.value.members, K_cid, Uint8Array(id.value))))
                    ELSE ProtocolError(ProtocolViolation)
           ELSE Return(env.value)

encodeRpcEnvelope(env, format) ==
  IF format = "json" THEN encodeJson(env) ELSE ProtocolError(ProtocolViolation)

decodeRpcEnvelope(data, format) ==
  IF format = "json" THEN decodeJson(data) ELSE ProtocolError(ProtocolViolation)

----------------------------------------------------------------------------
(* Inputs of the envelope codec: the envelopes a caller builds and the     *)
(* bytes a peer sends.                                                     *)

(* Strings with a quote, a backslash, a line feed, characters of two,      *)
(* three and four bytes, and a lone surrogate                              *)
PayloadStrings == { <<>>, <<65, 108, 105, 99, 101>>, <<34, 92, 10>>, <<233, 8364, 128512>>, <<55296>> }

(* JSON values: { id: 42 }, { id: 42, name: "Alice" }, nested values and   *)
(* a payload with property names of the envelope itself                    *)
Payloads ==
  {null, Bool(TRUE), Bool(FALSE), Num(0), Num(0 - 32000)}
    \cup {Str(s) : s \in PayloadStrings}
    \cup { Arr(<<>>), Obj(<<>>),
           Arr(<<Num(1), Str(<<97>>), null, Arr(<<Bool(FALSE)>>)>>),
           Obj(<<Member(<<105, 100>>, Num(42))>>),
           Obj(<<Member(<<105, 100>>, Num(42)), Member(<<110, 97, 109, 101>>, Str(<<65, 108, 105, 99, 101>>))>>),
           Obj(<<Member(K_cid, Str(<<120>>)), Member(K_t, null),
                 Member(<<>>, Obj(<<Member(K_p, Arr(<<Num(7)>>))>>))>>) }

(* An optional property: not there, there with the value undefined, or a   *)
(* payload.                                                                *)
Absent == <<>>

Optional(key) ==
  {Absent, <<Member(key, undefined)>>} \cup {<<Member(key, v)>> : v \in Payloads}

(* "getUser", "user.joined", the empty name, and a name that needs escapes *)
Names == { <<103, 101, 116, 85, 115, 101, 114>>, <<117, 115, 101, 114, 46, 106, 111, 105, 110, 101, 100>>, <<>>, <<34, 233, 92>> }

Codes == {0, 500, 0 - 32601}

RpcRequests ==
  { Obj(<<Member(K_t, Str(T_r)), Member(K_m, Str(m)), Member(K_cid, Uint8Array(cid))>> \o opt) :
      m \in Names, cid \in Cids, opt \in Optional(K_p) }

RpcSuccessResponses ==
  { Obj(<<Member(K_t, Str(T_R)), Member(K_cid, Uint8Array(cid))>> \o opt) :
      cid \in Cids, opt \in Optional(K_result) }

RpcErrorResponses ==
  { Obj(<<Member(K_t, Str(T_E)), Member(K_code, Num(code)), Member(K_message, Str(msg)),
          Member(K_cid, Uint8Array(cid))>> \o opt) :
      code \in Codes, msg \in {<<83, 101, 114, 118, 101, 114, 32, 69, 114, 114, 111, 114>>, <<>>}, cid \in Cids, opt \in Optional(K_data) }

RpcNotifications ==
  { Obj(<<Member(K_t, Str(T_N)), Member(K_e, Str(e))>> \o opt) :
      e \in Names, opt \in Optional(K_d) }

RpcEnvelopes == RpcRequests \cup RpcSuccessResponses \cup RpcErrorResponses \cup RpcNotifications

(* What a peer may put under "t": the four tags, unknown tags, and values  *)
(* that are no string                                                      *)
PeerTags ==
  {<<Member(K_t, Str(t))>> : t \in Tags \cup {<<88>>, <<>>, <<114, 114>>, <<110>>}}
    \cup {Absent, <<Member(K_t, Num(1))>>, <<Member(K_t, null)>>,
          <<Member(K_t, Arr(<<Str(T_r)>>))>>}

UpperHex == [i \in 1..32 |-> IF i % 2 = 1 THEN 65 + (i % 6) ELSE 48 + (i % 10)]

(* Under "cid": a well-formed id, uppercase digits, 31 and 33 digits, a    *)
(* character that is no digit, and values that are no string               *)
PeerCids ==
  {<<Member(K_cid, Str(frameIdToHex(cid)))>> : cid \in Cids}
    \cup {<<Member(K_cid, Str(h))>> :
            h \in { UpperHex,
                    SubSeq(frameIdToHex(MkCid(1)), 1, 31),
                    frameIdToHex(MkCid(1)) \o <<48>>,
                    [frameIdToHex(MkCid(1)) EXCEPT ![7] = 103],
                    [frameIdToHex(MkCid(1)) EXCEPT ![32] = 10],
                    <<>> }}
    \cup {Absent, <<Member(K_cid, Num(5))>>, <<Member(K_cid, null)>>}

PeerString(key) ==
  {Absent, <<Member(key, Str(<<97, 100, 100>>))>>, <<Member(key, Str(<<>>))>>,
   <<Member(key, Num(3))>>, <<Member(key, null)>>, <<Member(key, Bool(TRUE))>>}

PeerNumber(key) ==
  {Absent, <<Member(key, Num(500))>>, <<Member(key, Str(<<53, 48, 48>>))>>, <<Member(key, null)>>}

(* The objects a peer may send: for each tag the properties its rule looks *)
(* at, each of them there or not, of the right type or not                 *)
PeerObjects ==
  { Obj(t \o cid \o m) : t \in PeerTags, cid \in PeerCids, m \in PeerString(K_m) }
    \cup { Obj(t \o cid \o code \o msg) :
             t \in {<<Member(K_t, Str(T_E))>>}, cid \in PeerCids,
             code \in PeerNumber(K_code), msg \in PeerString(K_message) }
    \cup { Obj(t \o cid \o e \o d) :
             t \in {<<Member(K_t, Str(T_N))>>}, cid \in PeerCids,
             e \in PeerString(K_e), d \in {Absent, <<Member(K_d, Num(1))>>} }

(* Texts that are no JSON, JSON that is no object, and an envelope with    *)
(* white space, a repeated property and a fractional code                  *)
PeerTexts ==
  { <<123, 105, 110, 118, 97, 108, 105, 100, 32, 106, 115, 111, 110>>, <<>>, <<123>>, <<123, 34, 116, 34, 58, 34, 78, 34, 44, 34, 101, 34, 58, 34, 120, 34>>, <<123, 34, 116, 34, 58, 34, 78, 34, 44, 34, 101, 34, 58, 34, 120, 34, 125, 125>>,
    <<123, 39, 116, 39, 58, 39, 78, 39, 44, 39, 101, 39, 58, 39, 120, 39, 125>>, <<123, 34, 116, 34, 58, 34, 78, 34, 44, 34, 101, 34, 58, 34, 120, 34, 44, 125>>, <<123, 34, 116, 34, 58, 34, 78, 34, 44, 34, 101, 34, 58, 34, 92, 120, 34, 125>>,
    <<34, 110, 111, 116, 32, 97, 110, 32, 111, 98, 106, 101, 99, 116, 34>>, <<53>>, <<110, 117, 108, 108>>, <<116, 114, 117, 101>>, <<91, 93>>, <<91, 123, 34, 116, 34, 58, 34, 78, 34, 44, 34, 101, 34, 58, 34, 120, 34, 125, 93>>,
    <<32, 123, 32, 34, 116, 34, 32, 58, 32, 34, 78, 34, 32, 44, 32, 34, 101, 34, 32, 58, 32, 34, 120, 34, 32, 44, 32, 34, 116, 34, 32, 58, 32, 34, 81, 34, 32, 125, 32>>,
    <<32, 123, 32, 34, 116, 34, 32, 58, 32, 34, 81, 34, 32, 44, 32, 34, 101, 34, 32, 58, 32, 34, 120, 34, 32, 44, 32, 34, 116, 34, 32, 58, 32, 34, 78, 34, 32, 125, 32>>,
    <<123, 34, 116, 34, 58, 34, 69, 34, 44, 34, 99, 105, 100, 34, 58, 34, 48, 48, 48, 49, 48, 50, 48, 51, 48, 52, 48, 53, 48, 54, 48, 55, 48, 56, 48, 57, 48, 97, 48, 98, 48, 99, 48, 100, 48, 101, 48, 102, 34, 44, 34, 99, 111, 100, 101, 34, 58, 49, 46, 53, 101, 51, 44, 34, 109, 101, 115, 115, 97, 103, 101, 34, 58, 34, 109, 34, 125>> }

(* Bytes that are no UTF-8, alone and inside a string, and a text after a  *)
(* byte order mark                                                         *)
PeerBytes ==
  {TextEncoder_encode(stringify(o)) : o \in PeerObjects}
    \cup {TextEncoder_encode(txt) : txt \in PeerTexts}
    \cup { <<255>>,
           TextEncoder_encode(<<123, 34, 116, 34, 58, 34, 78, 34, 44, 34, 101, 34, 58, 34>>) \o <<192, 175>> \o TextEncoder_encode(<<34, 125>>),
           BOM \o TextEncoder_encode(<<123, 34, 116, 34, 58, 34, 78, 34, 44, 34, 101, 34, 58, 34, 120, 34, 125>>) }

RpcInit ==
  /\ EngineInit
  /\ CodecIdle
  /\ OthersIdle
  /\ parsed = NotCalled
  /\ \/ /\ envelope \in {Return(e) : e \in RpcEnvelopes}
        /\ bytes = NotCalled
     \/ /\ envelope = NotCalled
        /\ bytes \in {Return(b) : b \in PeerBytes}

(* bytes = encodeRpcEnvelope(envelope) *)
EncodeEnvelope ==
  /\ envelope # NotCalled
  /\ bytes = NotCalled
  /\ bytes' = encodeRpcEnvelope(envelope.value, "json")
  /\ UNCHANGED <<envelope, parsed, engineVars, codecVars, otherVars>>

(* parsed = decodeRpcEnvelope(bytes) *)
DecodeEnvelope ==
  /\ bytes.ok
  /\ parsed = NotCalled
  /\ parsed' = decodeRpcEnvelope(bytes.value, "json")
  /\ UNCHANGED <<envelope, bytes, engineVars, codecVars, otherVars>>

RpcNext == EncodeEnvelope \/ DecodeEnvelope

RpcSpec == RpcInit /\ [][RpcNext]_vars

----------------------------------------------------------------------------
(* Vocabulary of the envelope claims *)

RpcEncodeDone == envelope # NotCalled /\ bytes # NotCalled

RpcRoundTripDone == envelope # NotCalled /\ parsed # NotCalled

FromRpcPeer == envelope = NotCalled /\ parsed # NotCalled

(* The property names of an object whose value is not undefined *)
Keys(o) == {Defined(o.members)[i].key : i \in 1..Len(Defined(o.members))}

(* Structural equality of two values: same type, same properties with      *)
(* equal values, a property that is undefined counting as not there        *)
RECURSIVE StructEq(_, _)
StructEq(a, b) ==
  IF a.type # b.type THEN FALSE
  ELSE IF a.type = "object"
    THEN /\ Keys(a) = Keys(b)
         /\ \A k \in Keys(a) : StructEq(Get(a, k), Get(b, k))
  ELSE IF a.type = "array"
    THEN /\ Len(a.items) = Len(b.items)
         /\ \A i \in 1..Len(a.items) : StructEq(a.items[i], b.items[i])
  ELSE a = b

(* What the bytes say, read as JSON text *)
Said == JSON_parse(TextDecoder_decode(bytes.value))

(* v is a string of 32 lowercase hexadecimal digits *)
LowerHex32(v) ==
  /\ v.type = "string"
  /\ Len(v.str) = 32
  /\ \A i \in 1..Len(v.str) : IsLowerHex(v.str[i])

(* The digits of h spell the bytes of id *)
Spells(h, id) ==
  /\ Len(h) = 2 * Len(id)
  /\ \A i \in 1..Len(id) : (16 * hexValue(h[(2 * i) - 1])) + hexValue(h[2 * i]) = id[i]

OptionalKeys == {K_p, K_result, K_data, K_d}

TagOf(o) == Get(o, K_t)

HasTag(o, tags) == TagOf(o).type = "string" /\ TagOf(o).str \in tags

(* v is one of the four variants: its tag and the properties the tag       *)
(* requires, cid as 16 bytes                                               *)
IsVariant(v) ==
  /\ v.type = "object"
  /\ HasTag(v, Tags)
  /\ HasTag(v, {T_r, T_R, T_E}) =>
       (Get(v, K_cid).type = "Uint8Array" /\ Len(Get(v, K_cid).bytes) = FRAME_ID_SIZE)
  /\ HasTag(v, {T_r}) => Get(v, K_m).type = "string"
  /\ HasTag(v, {T_E}) => (Get(v, K_code).type = "number" /\ Get(v, K_message).type = "string")
  /\ HasTag(v, {T_N}) => Get(v, K_e).type = "string"

(* The reasons the claim lists for which bytes must be refused *)
MustRefuse ==
  \/ ~Said.ok
  \/ Said.value.type # "object"
  \/ ~HasTag(Said.value, Tags)
  \/ HasTag(Said.value, {T_r, T_R, T_E}) /\ ~LowerHex32(Get(Said.value, K_cid))
  \/ HasTag(Said.value, {T_r}) /\ Get(Said.value, K_m).type # "string"
  \/ HasTag(Said.value, {T_E}) /\ Get(Said.value, K_code).type # "number"
  \/ HasTag(Said.value, {T_E}) /\ Get(Said.value, K_message).type # "string"
  \/ HasTag(Said.value, {T_N}) /\ Get(Said.value, K_e).type # "string"

(* C19: encoding a valid envelope succeeds, and decoding the bytes gives   *)
(* an envelope structurally equal to it; in the encoded text cid is 32     *)
(* lowercase hexadecimal digits that spell its 16 bytes, an optional       *)
(* property (p, result, data, d) that is absent is not in the text at all, *)
(* and a Notification has no cid.                                          *)
C19_EnvelopeRoundTrip ==
  /\ RpcEncodeDone =>
       /\ bytes.ok
       /\ Said.ok
       /\ In(K_cid, envelope.value) =>
            /\ LowerHex32(Get(Said.value, K_cid))
            /\ Spells(Get(Said.value, K_cid).str, Get(envelope.value, K_cid).bytes)
       /\ \A key \in OptionalKeys :
            Get(envelope.value, key) = undefined => ~In(key, Said.value)
       /\ HasTag(envelope.value, {T_N}) => ~In(K_cid, Said.value)
  /\ RpcRoundTripDone =>
       /\ parsed.ok
       /\ StructEq(parsed.value, envelope.value)

(* A Request whose p is there with the value undefined was encoded and     *)
(* decoded again.                                                          *)
C19_Witness ==
  /\ RpcRoundTripDone
  /\ parsed.ok
  /\ HasTag(envelope.value, {T_r})
  /\ In(K_p, envelope.value)
  /\ Get(envelope.value, K_p) = undefined

(* C20: decodeRpcEnvelope returns one of the four variants or throws a     *)
(* ProtocolViolation, whatever the bytes; it throws the ProtocolViolation  *)
(* for text that is no JSON, for JSON that is no object, for a t that is   *)
(* missing, no string or no known tag, for an r, R or E whose cid is       *)
(* missing or is not 32 digits of 0-9a-f, for an r whose m is missing or   *)
(* no string, for an E whose code is missing or no number or whose         *)
(* message is missing or no string, and for an N whose e is missing or no  *)
(* string.                                                                 *)
C20_DecodeTotal ==
  parsed # NotCalled =>
    /\ \/ parsed.ok /\ IsVariant(parsed.value)
       \/ parsed = ProtocolError(ProtocolViolation)
    /\ MustRefuse => parsed = ProtocolError(ProtocolViolation)

(* A peer's Request whose cid is 32 uppercase digits was refused. *)
C20_Witness ==
  /\ FromRpcPeer
  /\ parsed = ProtocolError(ProtocolViolation)
  /\ Said.ok
  /\ HasTag(Said.value, {T_r})
  /\ Get(Said.value, K_cid) = Str(UpperHex)
  /\ Get(Said.value, K_m).type = "string"


----------------------------------------------------------------------------
(* Request/response correlation over the wire: the originator registers a  *)
(* cid, the peer answers with a Success envelope that carries the cid and  *)
(* encodes it, the originator decodes the bytes and hands the cid and the  *)
(* envelope to matchResponse.                                              *)

(* { text: "hi" } *)
TextHi == Obj(<<Member(<<116, 101, 120, 116>>, Str(<<104, 105>>))>>)

WireResults == {Absent, <<Member(K_result, TextHi)>>}

createRpcSuccessResponse(cid, result) ==
  Obj(<<Member(K_t, Str(T_R)), Member(K_cid, Uint8Array(cid))>> \o result)

(* A request with this cid went out at some time *)
Requested(cid) == \E r \in Regs : r < nextReg /\ regCid[r] = cid

(* The peer answers a request it has seen *)
Respond(cid, result) ==
  /\ Requested(cid)
  /\ envelope = NotCalled
  /\ envelope' = Return(createRpcSuccessResponse(cid, result))
  /\ bytes' = encodeRpcEnvelope(createRpcSuccessResponse(cid, result), "json")
  /\ UNCHANGED <<parsed, engineVars, codecVars, otherVars>>

(* The originator decodes what arrived *)
ReceiveResponse ==
  /\ bytes.ok
  /\ parsed = NotCalled
  /\ parsed' = decodeRpcEnvelope(bytes.value, "json")
  /\ UNCHANGED <<envelope, bytes, engineVars, codecVars, otherVars>>

(* match(envelope.cid, envelope) *)
Dispatch ==
  /\ parsed.ok
  /\ matchResponse(Get(parsed.value, K_cid).bytes, parsed.value)

WireNext ==
  \/ \E cid \in Cids : registerRequest(cid)
  \/ \E cid \in Cids, result \in WireResults : Respond(cid, result)
  \/ ReceiveResponse
  \/ Dispatch
  \/ \E h \in Regs : TimeoutFire(h)
  \/ Tick

WireSpec == Init /\ [][WireNext]_vars

(* C21: a cid survives the wire and still finds its pending entry.  The    *)
(* bytes of a Success envelope that carries cid a decode to an envelope    *)
(* whose cid has the 16 bytes of a; when the registration of a is pending, *)
(* matchResponse on the decoded cid returns normally for a, and the handle *)
(* is fulfilled with the envelope that was handed to matchResponse, which  *)
(* is structurally the envelope the peer sent.                             *)
C21_CidSurvivesWire ==
  [][/\ ReceiveResponse =>
          /\ parsed'.ok
          /\ Get(parsed'.value, K_cid) = Get(envelope.value, K_cid)
          /\ StructEq(parsed'.value, envelope.value)
     /\ \A r \in Regs :
          (Live(r) /\ Dispatch /\ Get(envelope.value, K_cid).bytes = regCid[r])
            => /\ lastCall' = Returned("matchResponse", regCid[r], 0)
               /\ promises'[r] = Fulfilled(parsed.value)
               /\ ~Registered(regCid[r])']_vars

(* The handle of a registration was fulfilled with an envelope that came   *)
(* over the wire with a result.                                            *)
C21_Witness ==
  \E r \in Regs :
    /\ terminal[r] = "match"
    /\ parsed.ok
    /\ promises[r] = Fulfilled(parsed.value)
    /\ Get(parsed.value, K_cid) = Uint8Array(regCid[r])
    /\ Get(parsed.value, K_result) = TextHi

----------------------------------------------------------------------------
(* frameIdToHex and frameIdFromHex: a caller converts an id to text and    *)
(* back, or a text to an id and back.                                      *)

(* Ids of one repeated byte, at the ends of the digit ranges *)
HexIds ==
  Cids \cup {SampleId}
    \cup {[i \in 1..FRAME_ID_SIZE |-> b] : b \in {0, 9, 10, 15, 16, 159, 160, 255}}
    \cup {[i \in 1..FRAME_ID_SIZE |-> IF i % 2 = 1 THEN b ELSE 255 - b] : b \in {0, 1, 10, 171}}

(* The sixteen digits 0-9 and a-f *)
LowerDigits == (48..57) \cup (97..102)

(* Texts of 32 lowercase digits *)
ConformingTexts ==
  {[i \in 1..32 |-> c] : c \in LowerDigits}
    \cup {[i \in 1..32 |-> IF i % 2 = 1 THEN 48 + (i % 10) ELSE 97 + (i % 6)]}

(* Characters next to the digit ranges, uppercase letters, white space, a  *)
(* character above one byte and NUL                                        *)
OtherChars == {47, 58, 96, 103, 64, 65, 70, 71, 32, 10, 233, 0}

(* Texts of a wrong length, and texts of 32 characters one of which is no  *)
(* lowercase digit                                                         *)
NonConformingTexts ==
  {[i \in 1..n |-> 97] : n \in {0, 1, 16, 31, 33, 64}}
    \cup {[i \in 1..32 |-> IF i = p THEN c ELSE 49] : p \in {1, 16, 17, 32}, c \in OtherChars}
    \cup {[i \in 1..32 |-> c] : c \in 65..70}

HexInit ==
  /\ EngineInit
  /\ CodecIdle
  /\ RpcIdle
  /\ HandshakeIdle
  /\ TransportIdle
  /\ hexArg \in {[id |-> x] : x \in HexIds}
                  \cup {[text |-> t] : t \in ConformingTexts \cup NonConformingTexts}
  /\ hexResult = NotCalled
  /\ hexBack = NotCalled

(* frameIdToHex(id), on the caller's id or on the id frameIdFromHex gave *)
ToHex ==
  /\ \/ /\ Has(hexArg, "id")
        /\ hexResult = NotCalled
        /\ hexResult' = Return(frameIdToHex(hexArg.id))
        /\ UNCHANGED hexBack
     \/ /\ Has(hexArg, "text")
        /\ hexResult.ok
        /\ hexBack = NotCalled
        /\ hexBack' = Return(frameIdToHex(hexResult.value))
        /\ UNCHANGED hexResult
  /\ UNCHANGED <<hexArg, engineVars, codecVars, rpcVars, handshakeVars, transportVars>>

(* frameIdFromHex(text), on the caller's text or on the text frameIdToHex gave *)
FromHex ==
  /\ \/ /\ Has(hexArg, "text")
        /\ hexResult = NotCalled
        /\ hexResult' = frameIdFromHex(hexArg.text)
        /\ UNCHANGED hexBack
     \/ /\ Has(hexArg, "id")
        /\ hexResult.ok
        /\ hexBack = NotCalled
        /\ hexBack' = frameIdFromHex(hexResult.value)
        /\ UNCHANGED hexResult
  /\ UNCHANGED <<hexArg, engineVars, codecVars, rpcVars, handshakeVars, transportVars>>

HexNext == ToHex \/ FromHex

HexSpec == HexInit /\ [][HexNext]_vars

(* A text of exactly 32 characters, each one of 0-9 and a-f *)
Conforming(t) == Len(t) = 32 /\ \A i \in 1..Len(t) : t[i] \in LowerDigits

(* C22: for a 16-byte id, frameIdToHex returns exactly 32 lowercase        *)
(* hexadecimal digits and frameIdFromHex of them is the id byte for byte;  *)
(* for a text of 32 digits 0-9a-f, frameIdFromHex returns an id of which   *)
(* frameIdToHex is the text; for every other text frameIdFromHex throws.   *)
C22_HexRoundTrip ==
  /\ (Has(hexArg, "id") /\ hexResult # NotCalled) =>
       (hexResult.ok /\ Conforming(hexResult.value))
  /\ (Has(hexArg, "id") /\ hexBack # NotCalled) => hexBack = Return(hexArg.id)
  /\ (Has(hexArg, "text") /\ hexResult # NotCalled) =>
       IF Conforming(hexArg.text)
         THEN hexResult.ok /\ Len(hexResult.value) = FRAME_ID_SIZE
         ELSE hexResult = PlainError
  /\ (Has(hexArg, "text") /\ hexBack # NotCalled) => hexBack = Return(hexArg.text)

(* An id whose first byte needs a leading zero went to text and came back. *)
C22_Witness ==
  /\ Has(hexArg, "id")
  /\ hexArg.id[1] \in 1..15
  /\ hexResult.ok
  /\ hexBack = Return(hexArg.id)

----------------------------------------------------------------------------
(* Handshake payload codec: packages/protocol/src/frames.ts *)

(* "sideband" and "1" *)
PROTOCOL_NAME == <<115, 105, 100, 101, 98, 97, 110, 100>>

PROTOCOL_VERSION == <<49>>

K_protocol == <<112, 114, 111, 116, 111, 99, 111, 108>>
K_version == <<118, 101, 114, 115, 105, 111, 110>>
K_peerId == <<112, 101, 101, 114, 73, 100>>
K_caps == <<99, 97, 112, 115>>
K_metadata == <<109, 101, 116, 97, 100, 97, 116, 97>>

encodeHandshake(payload) == Return(TextEncoder_encode(stringify(payload)))

decodeHandshake_versionFirst(data) ==
  LET json == JSON_parse(TextDecoder_decode(data)) IN
  IF ~json.ok THEN ProtocolError(InvalidFrame)
  ELSE IF json.value = null THEN ProtocolError(InvalidFrame)
  ELSE IF typeof(Get(json.value, K_protocol)) # "string" THEN ProtocolError(InvalidFrame)
  ELSE IF typeof(Get(json.value, K_version)) # "string" THEN ProtocolError(InvalidFrame)
  ELSE IF Get(json.value, K_protocol).str # PROTOCOL_NAME
    THEN ProtocolError(UnsupportedVersion)
  ELSE IF Get(json.value, K_version).str # PROTOCOL_VERSION
    THEN ProtocolError(UnsupportedVersion)
  ELSE IF typeof(Get(json.value, K_peerId)) # "string" THEN ProtocolError(InvalidFrame)
  ELSE Return(json.value)

(* A SyntaxError of JSON.parse, the TypeError of a property read on null   *)
(* and the three plain Errors of the field checks all become InvalidFrame; *)
(* the two ProtocolErrors are thrown on as they are.                       *)
decodeHandshake(data) ==
  LET json == JSON_parse(TextDecoder_decode(data)) IN
  IF ~json.ok THEN ProtocolError(InvalidFrame)
  ELSE IF json.value = null THEN ProtocolError(InvalidFrame)
  ELSE IF typeof(Get(json.value, K_protocol)) # "string" THEN ProtocolError(InvalidFrame)
  ELSE IF typeof(Get(json.value, K_version)) # "string" THEN ProtocolError(InvalidFrame)
  ELSE IF typeof(Get(json.value, K_peerId)) # "string" THEN ProtocolError(InvalidFrame)
  ELSE IF Get(json.value, K_protocol).str # PROTOCOL_NAME
    THEN ProtocolError(UnsupportedVersion)
  ELSE IF Get(json.value, K_version).str # PROTOCOL_VERSION
    THEN ProtocolError(UnsupportedVersion)
  ELSE Return(json.value)

(* What a peer may put under a required field: the expected string, other  *)
(* strings, and values that are no string                                  *)
PeerField(key, expected, others) ==
  {<<Member(key, Str(s))>> : s \in {expected} \cup others}
    \cup {Absent, <<Member(key, Num(1))>>, <<Member(key, null)>>}

(* Capabilities, metadata and extra fields a receiver may not know *)
HandshakeExtras ==
  { Absent,
    <<Member(K_caps, Arr(<<Str(<<114, 112, 99>>), Str(<<112, 117, 98, 115, 117, 98>>)>>)),
      Member(K_metadata, Obj(<<Member(<<114, 101, 103, 105, 111, 110>>, Str(<<117, 115, 45, 101, 97, 115, 116>>)),
                               Member(K_version, Str(<<49, 46, 48>>))>>))>>,
    <<Member(K_caps, Arr(<<Str(<<99, 111, 109, 112, 114, 101, 115, 115, 105, 111, 110, 58, 103, 122, 105, 112>>), Str(<<120, 45, 117, 110, 107, 110, 111, 119, 110>>), Str(<<>>)>>))>>,
    <<Member(K_metadata, Obj(<<Member(<<99, 111, 109, 46, 101, 120, 97, 109, 112, 108, 101, 47, 120>>, Arr(<<Num(1), null>>)),
                               Member(K_protocol, Str(<<111, 116, 104, 101, 114>>))>>))>>,
    <<Member(K_caps, Str(<<114, 112, 99>>)), Member(K_metadata, null),
      Member(<<102, 117, 116, 117, 114, 101>>, Obj(<<Member(K_peerId, Num(7))>>))>> }

HandshakePayloads ==
  { Obj(p \o v \o id \o x) :
      p \in PeerField(K_protocol, PROTOCOL_NAME, {<<119, 114, 111, 110, 103, 112, 114, 111, 116, 111, 99, 111, 108>>, <<83, 105, 100, 101, 98, 97, 110, 100>>, <<>>}),
      v \in PeerField(K_version, PROTOCOL_VERSION, {<<50>>, <<57, 57>>, <<49, 46, 48>>, <<>>}),
      id \in PeerField(K_peerId, <<112, 101, 101, 114, 45, 49, 50, 51>>, {<<>>}),
      x \in HandshakeExtras }

(* Bytes that are no JSON, JSON that is no object, bytes that are no       *)
(* UTF-8, and a payload with white space and a repeated field              *)
HandshakeBytes ==
  {TextEncoder_encode(txt) :
     txt \in { <<>>, <<123, 105, 110, 118, 97, 108, 105, 100, 32, 106, 115, 111, 110>>, <<123, 34, 112, 114, 111, 116, 111, 99, 111, 108, 34, 58, 34, 115, 105, 100, 101, 98, 97, 110, 100, 34, 44, 34, 118, 101, 114, 115, 105, 111, 110, 34, 58, 34, 49, 34, 44, 34, 112, 101, 101, 114, 73, 100, 34, 58, 34, 112, 49, 34>>,
               <<110, 117, 108, 108>>, <<53>>, <<116, 114, 117, 101>>, <<34, 115, 105, 100, 101, 98, 97, 110, 100, 34>>, <<91, 93>>,
               <<91, 123, 34, 112, 114, 111, 116, 111, 99, 111, 108, 34, 58, 34, 115, 105, 100, 101, 98, 97, 110, 100, 34, 44, 34, 118, 101, 114, 115, 105, 111, 110, 34, 58, 34, 49, 34, 44, 34, 112, 101, 101, 114, 73, 100, 34, 58, 34, 112, 49, 34, 125, 93>>,
               <<32, 123, 32, 34, 112, 114, 111, 116, 111, 99, 111, 108, 34, 32, 58, 32, 34, 115, 105, 100, 101, 98, 97, 110, 100, 34, 32, 44, 32, 34, 118, 101, 114, 115, 105, 111, 110, 34, 32, 58, 32, 34, 50, 34, 32, 44, 32, 34, 112, 101, 101, 114, 73, 100, 34, 32, 58, 32, 34, 112, 49, 34, 32, 44, 32, 34, 118, 101, 114, 115, 105, 111, 110, 34, 32, 58, 32, 34, 49, 34, 32, 125, 32>>,
               <<123, 34, 112, 114, 111, 116, 111, 99, 111, 108, 34, 58, 34, 115, 105, 100, 101, 98, 97, 110, 100, 34, 44, 34, 118, 101, 114, 115, 105, 111, 110, 34, 58, 34, 49, 34, 44, 34, 112, 101, 101, 114, 73, 100, 34, 58, 34, 112, 49, 34, 44, 34, 118, 101, 114, 115, 105, 111, 110, 34, 58, 34, 50, 34, 125>> }}
    \cup { <<255>>,
           BOM \o TextEncoder_encode(<<123, 34, 112, 114, 111, 116, 111, 99, 111, 108, 34, 58, 34, 115, 105, 100, 101, 98, 97, 110, 100, 34, 44, 34, 118, 101, 114, 115, 105, 111, 110, 34, 58, 34, 49, 34, 44, 34, 112, 101, 101, 114, 73, 100, 34, 58, 34, 112, 49, 34, 125>>),
           TextEncoder_encode(<<123, 34, 112, 114, 111, 116, 111, 99, 111, 108, 34, 58, 34, 115, 105, 100, 101, 98, 97, 110, 100, 34, 44, 34, 118, 101, 114, 115, 105, 111, 110, 34, 58, 34, 49, 34, 44, 34, 112, 101, 101, 114, 73, 100, 34, 58, 34>>)
             \o <<192, 175>> \o TextEncoder_encode(<<34, 125>>) }

HandshakeInit ==
  /\ EngineInit
  /\ CodecIdle
  /\ RpcIdle
  /\ HexIdle
  /\ TransportIdle
  /\ hsDecoded = NotCalled
  /\ \/ /\ hsPayload \in {Return(p) : p \in HandshakePayloads}
        /\ hsBytes = NotCalled
     \/ /\ hsPayload = NotCalled
        /\ hsBytes \in {Return(b) : b \in HandshakeBytes}

(* hsBytes = encodeHandshake(hsPayload) *)
EncodeHandshake ==
  /\ hsPayload # NotCalled
  /\ hsBytes = NotCalled
  /\ hsBytes' = encodeHandshake(hsPayload.value)
  /\ UNCHANGED <<hsPayload, hsDecoded, engineVars, codecVars, rpcVars, hexVars, transportVars>>

(* hsDecoded = decodeHandshake(hsBytes) *)
DecodeHandshake ==
  /\ hsBytes.ok
  /\ hsDecoded = NotCalled
  /\ hsDecoded' = decodeHandshake(hsBytes.value)
  /\ UNCHANGED <<hsPayload, hsBytes, engineVars, codecVars, rpcVars, hexVars, transportVars>>

HandshakeNext == EncodeHandshake \/ DecodeHandshake

HandshakeSpec == HandshakeInit /\ [][HandshakeNext]_vars

(* What the handshake bytes say, read as JSON text *)
SaidHandshake == JSON_parse(TextDecoder_decode(hsBytes.value))

IsObject(v) == v.type = "object"

StringAt(v, key) == IsObject(v) /\ Get(v, key).type = "string"

(* The three required fields are strings *)
FieldsPresent(v) ==
  StringAt(v, K_protocol) /\ StringAt(v, K_version) /\ StringAt(v, K_peerId)

(* protocol or version is a string, but not the expected one *)
Mismatch(v) ==
  \/ StringAt(v, K_protocol) /\ Get(v, K_protocol).str # PROTOCOL_NAME
  \/ StringAt(v, K_version) /\ Get(v, K_version).str # PROTOCOL_VERSION

Acceptable(v) == FieldsPresent(v) /\ ~Mismatch(v)

(* A payload comes back exactly for acceptable input, and it is the object *)
(* the bytes say, caps, metadata and unknown fields included.              *)
AcceptsExactly ==
  /\ hsDecoded.ok <=> (SaidHandshake.ok /\ Acceptable(SaidHandshake.value))
  /\ hsDecoded.ok =>
       /\ hsDecoded.value = SaidHandshake.value
       /\ hsPayload # NotCalled =>
            /\ StructEq(Get(hsDecoded.value, K_caps), Get(hsPayload.value, K_caps))
            /\ StructEq(Get(hsDecoded.value, K_metadata), Get(hsPayload.value, K_metadata))

(* The statement as it stands: every mismatch of protocol or version fails *)
(* with UnsupportedVersion, and every missing or non-string required field *)
(* and every input that cannot be parsed fails with InvalidFrame.          *)
C23_Original ==
  hsDecoded # NotCalled =>
    /\ AcceptsExactly
    /\ (SaidHandshake.ok /\ Mismatch(SaidHandshake.value))
         => hsDecoded = ProtocolError(UnsupportedVersion)
    /\ (~SaidHandshake.ok \/ ~FieldsPresent(SaidHandshake.value))
         => hsDecoded = ProtocolError(InvalidFrame)

(* C23: decodeHandshake returns a payload exactly when the bytes are JSON  *)
(* for an object whose protocol is "sideband", whose version is "1" and    *)
(* whose peerId is a string, and the payload is that object with caps,     *)
(* metadata and unknown fields unchanged.  Input that cannot be parsed or  *)
(* that lacks one of the three fields as a string fails with InvalidFrame, *)
(* also when its protocol or version differs; when all three fields are    *)
(* strings, a protocol or version that differs fails with                  *)
(* UnsupportedVersion.                                                     *)
C23_HandshakeRules ==
  hsDecoded # NotCalled =>
    /\ AcceptsExactly
    /\ (SaidHandshake.ok /\ FieldsPresent(SaidHandshake.value) /\ Mismatch(SaidHandshake.value))
         => hsDecoded = ProtocolError(UnsupportedVersion)
    /\ (~SaidHandshake.ok \/ ~FieldsPresent(SaidHandshake.value))
         => hsDecoded = ProtocolError(InvalidFrame)

(* A handshake of version "2" without a peerId was refused as an invalid   *)
(* frame.                                                                  *)
C23_Witness ==
  /\ hsDecoded = ProtocolError(InvalidFrame)
  /\ SaidHandshake.ok
  /\ Get(SaidHandshake.value, K_protocol) = Str(PROTOCOL_NAME)
  /\ Get(SaidHandshake.value, K_version) = Str(<<50>>)
  /\ ~In(K_peerId, SaidHandshake.value)

----------------------------------------------------------------------------
(* The frame a caller encoded carries an id of 16 bytes, as the FrameId    *)
(* type says, and encodeFrame returned bytes.                              *)
Encoded16 ==
  /\ EncodeDone
  /\ encoded.ok
  /\ Len(frame.frameId) = FRAME_ID_SIZE

(* n as four bytes, least significant first *)
LittleEndian4(n) ==
  <<n % 256, (n \div 256) % 256, (n \div 65536) % 256, (n \div 16777216) % 256>>

----------------------------------------------------------------------------
(* MemoryTransport: a connected pair of channels.  Synchronous calls       *)
(* (send, next, close, a write into the sender's array) run to completion;  *)
(* the continuation of an awaited promise runs later, from the microtask   *)
(* queue, first resolved first.                                            *)

MaxSends == 2
MaxNexts == 3

client == "client"
server == "server"
Channels == {client, server}

(* clientChannel.peer = serverChannel; serverChannel.peer = clientChannel *)
peer(c) == IF c = client THEN server ELSE client

(* The byte arrays a caller holds, as addresses of the heap, and the       *)
(* values a caller writes into them                                        *)
CallerArrays == {1}
ByteValues == {<<7>>, <<8>>}

(* Position of an inbound next() call *)
Running == "running"
Waiting == "waiting"
Woken == "woken"
Finished == "finished"

(* { value, done: false } and { done: true, value: undefined } *)
IteratorValue(v) == [done |-> FALSE, value |-> v]
IteratorDone == [done |-> TRUE]

(* connect(): two fresh channels, cross-connected *)
TransportInit ==
  /\ EngineInit
  /\ CodecIdle
  /\ RpcIdle
  /\ HexIdle
  /\ HandshakeIdle
  /\ chClosed = [c \in Channels |-> FALSE]
  /\ chBuffer = [c \in Channels |-> <<>>]
  /\ chResolvers = [c \in Channels |-> <<>>]
  /\ microtasks = <<>>
  /\ nextCalls = <<>>
  /\ heap \in {<<v>> : v \in ByteValues}
  /\ sendLog = [c \in Channels |-> <<>>]
  /\ recvLog = [c \in Channels |-> <<>>]

Uint8Array_alias(h, a) == [address |-> a, heap |-> h]

(* new Uint8Array(bytes): a fresh array holding a copy of the elements *)
Uint8Array_from(h, a) == [address |-> Len(h) + 1, heap |-> Append(h, h[a])]

(* The resolve function of the promise a next() call awaits in one turn of *)
(* its loop                                                                *)
Resolver(k, round) == [call |-> k, round |-> round]

(* Calling a resolve function: the awaiting call is queued as a           *)
(* microtask; resolving a                                                  *)
(* promise a second time does nothing                                      *)
wake(r, st) ==
  IF st.calls[r.call].state = Waiting /\ st.calls[r.call].round = r.round
    THEN [calls |-> [st.calls EXCEPT ![r.call].state = Woken],
          queue |-> Append(st.queue, r.call)]
    ELSE st

(* this.resolvers.forEach((r) => r()) *)
RECURSIVE forEachResolve(_, _)
forEachResolve(rs, st) ==
  IF rs = <<>> THEN st ELSE forEachResolve(Tail(rs), wake(Head(rs), st))

(* One pass of the body of next() for call k on channel c, from the test   *)
(* of the while loop to the await or to the return                         *)
loop(k, c, calls) ==
  IF chBuffer[c] = <<>> /\ ~chClosed[c]
    THEN /\ chResolvers' =
              [chResolvers EXCEPT ![c] = Append(@, Resolver(k, calls[k].round + 1))]
         /\ nextCalls' = [calls EXCEPT ![k].state = Waiting, ![k].round = @ + 1]
         /\ UNCHANGED <<chBuffer, recvLog>>
    ELSE IF chBuffer[c] # <<>>
      THEN /\ chBuffer' = [chBuffer EXCEPT ![c] = Tail(@)]
           /\ nextCalls' = [calls EXCEPT ![k].state = Finished,
                                         ![k].result = IteratorValue(Head(chBuffer[c]))]
           /\ recvLog' = [recvLog EXCEPT ![c] = Append(@, heap[Head(chBuffer[c])])]
           /\ UNCHANGED chResolvers
      ELSE /\ nextCalls' = [calls EXCEPT ![k].state = Finished, ![k].result = IteratorDone]
           /\ UNCHANGED <<chBuffer, chResolvers, recvLog>>

Sent == Len(sendLog[client]) + Len(sendLog[server])

(* c.send(bytes), bytes being the caller's array at address a.  A closed   *)
(* channel throws before it changes anything.                              *)
send(c, a) ==
  /\ Sent < MaxSends
  /\ ~chClosed[c]
  /\ LET copy == Uint8Array_from(heap, a)
         rs == chResolvers[peer(c)]
         st == [calls |-> nextCalls, queue |-> microtasks]
         woke == IF rs = <<>> THEN st ELSE wake(Head(rs), st)
     IN /\ heap' = copy.heap
        /\ chBuffer' = [chBuffer EXCEPT ![peer(c)] = Append(@, copy.address)]
        /\ chResolvers' = [chResolvers EXCEPT ![peer(c)] = IF rs = <<>> THEN rs ELSE Tail(rs)]
        /\ nextCalls' = woke.calls
        /\ microtasks' = woke.queue
        /\ sendLog' = [sendLog EXCEPT ![peer(c)] = Append(@, heap[a])]
  /\ UNCHANGED <<chClosed, recvLog, engineVars, codecVars, rpcVars, hexVars, handshakeVars>>

(* c.close() *)
close(c) ==
  /\ ~chClosed[c]
  /\ chClosed' = [chClosed EXCEPT ![c] = TRUE]
  /\ LET woke == forEachResolve(chResolvers[c], [calls |-> nextCalls, queue |-> microtasks])
     IN /\ nextCalls' = woke.calls
        /\ microtasks' = woke.queue
  /\ UNCHANGED <<chBuffer, chResolvers, heap, sendLog, recvLog,
                 engineVars, codecVars, rpcVars, hexVars, handshakeVars>>

(* A call of next() on the inbound iterator of c, up to its first await or *)
(* its return                                                              *)
next(c) ==
  /\ Len(nextCalls) < MaxNexts
  /\ LET k == Len(nextCalls) + 1
         calls == Append(nextCalls, [channel |-> c, state |-> Running, round |-> 0,
                                     result |-> NotCalled])
     IN loop(k, c, calls)
  /\ UNCHANGED <<chClosed, microtasks, heap, sendLog,
                 engineVars, codecVars, rpcVars, hexVars, handshakeVars>>

(* The microtask at the head of the queue: a woken next() goes round its   *)
(* loop again                                                              *)
resume ==
  /\ microtasks # <<>>
  /\ LET k == Head(microtasks)
     IN loop(k, nextCalls[k].channel, nextCalls)
  /\ microtasks' = Tail(microtasks)
  /\ UNCHANGED <<chClosed, heap, sendLog,
                 engineVars, codecVars, rpcVars, hexVars, handshakeVars>>

(* The caller writes into an array it holds *)
write(a, v) ==
  /\ heap[a] # v
  /\ heap' = [heap EXCEPT ![a] = v]
  /\ UNCHANGED <<chClosed, chBuffer, chResolvers, microtasks, nextCalls, sendLog, recvLog,
                 engineVars, codecVars, rpcVars, hexVars, handshakeVars>>

TransportNext ==
  \/ \E c \in Channels, a \in CallerArrays : send(c, a)
  \/ \E c \in Channels : next(c)
  \/ resume
  \/ \E c \in Channels : close(c)
  \/ \E a \in CallerArrays, v \in ByteValues : write(a, v)

TransportSpec == TransportInit /\ [][TransportNext]_vars

(* The arrays waiting in the buffer of c, by their contents *)
Buffered(c) == [i \in 1..Len(chBuffer[c]) |-> heap[chBuffer[c][i]]]

(* C25: on a connected pair, what the inbound iterator of a channel has    *)
(* returned, followed by what still waits in its buffer, is what was sent  *)
(* to it: every array once, in send order, with the contents it had when   *)
(* send was called, whatever the interleaving of send, next, the resumed   *)
(* continuations, close and the sender's later writes.                     *)
C25_OrderedDelivery ==
  \A c \in Channels : recvLog[c] \o Buffered(c) = sendLog[c]

(* Two next() calls on the server waited at once, the client sent two      *)
(* arrays of different contents from one array it rewrote after each send, *)
(* and both calls returned a value                                         *)
C25_Witness ==
  /\ Len(recvLog[server]) = 2
  /\ recvLog[server][1] # recvLog[server][2]
  /\ heap[1] # recvLog[server][2]
  /\ \E j, k \in 1..Len(nextCalls) :
       /\ j # k
       /\ \A i \in {j, k} :
            /\ nextCalls[i].channel = server
            /\ nextCalls[i].round >= 1
            /\ nextCalls[i].state = Finished
            /\ ~nextCalls[i].result.done

(* The microtask queue is drained: a queued continuation is run *)
FairTransportSpec == TransportSpec /\ WF_vars(resume)

(* next() call k is suspended at its await *)
Suspended(k) == k <= Len(nextCalls) /\ nextCalls[k].state = Waiting

(* next() call k has returned *)
HasReturned(k) == k <= Len(nextCalls) /\ nextCalls[k].state = Finished

(* C26: once either end of the pair is closed, no next() call stays        *)
(* suspended for ever: each call suspended then, on either end, returns.   *)
C26_InboundCompletes ==
  \A k \in 1..MaxNexts :
    ((\E c \in Channels : chClosed[c]) /\ Suspended(k)) ~> HasReturned(k)
----------------------------------------------------------------------------
(* The engine between operations *)

(* The registrations made for an id so far, and the latest of them *)
RegsOf(cid) == {r \in Regs : Created(r) /\ regCid[r] = cid}

Latest(cid) == CHOOSE r \in RegsOf(cid) : \A q \in RegsOf(cid) : q <= r

(* C27: between engine operations, for every correlation id, having an     *)
(* entry in the registry, the handle of the latest registration being      *)
(* unsettled and that registration's timer being armed hold together or    *)
(* not at all; a step that terminates a registration (match, reject,       *)
(* clear, timeout) leaves it with no entry, a settled handle and a timer   *)
(* that is not armed.                                                      *)
AllOrNothing ==
  \A cid \in Cids :
    IF RegsOf(cid) = {}
      THEN ~Registered(cid)
      ELSE LET r == Latest(cid) IN
           /\ Registered(cid) <=> promises[r].state = "pending"
           /\ Registered(cid) <=> timers[r].state = "armed"
           /\ Registered(cid) =>
                pendingRequests[cidToKey(cid)] = [promise |-> r, timeoutHandle |-> r]

C27_NoHalfTransition ==
  /\ []AllOrNothing
  /\ [][\A r \in Regs :
          (Live(r) /\ terminal'[r] # "none")
            => /\ ~Registered(regCid[r])'
               /\ promises'[r].state \in {"fulfilled", "rejected"}
               /\ timers'[r].state \in {"cleared", "fired"}]_vars

(* One id is timed out and has no entry, another is pending with its timer *)
(* armed and running                                                       *)
C27_Witness ==
  \E r1, r2 \in Regs :
    /\ Created(r1) /\ terminal[r1] = "timeout" /\ ~Registered(regCid[r1])
    /\ timers[r1].state = "fired"
    /\ Live(r2) /\ Registered(regCid[r2])
    /\ timers[r2].state = "armed" /\ timers[r2].elapsed = 1
    /\ promises[r2].state = "pending"

(* The step is a call of op on cid, by what its caller saw *)
Called(op, cid) == lastCall'.op = op /\ lastCall'.cid = cid

(* Everything the engine holds: the registry, the handles and the timers *)
engineState == <<pendingRequests, promises, timers, nextReg, regCid, terminal>>

(* C28: a failing call changes nothing: registerRequest on a pending id    *)
(* throws and leaves the entry, every handle and every timer (its state,   *)
(* delay and elapsed time) as they were, and matchResponse or              *)
(* rejectRequest on an id without entry throws and leaves the registry,    *)
(* every handle and every timer as they were.                              *)
C28_FailedCallNoEffect ==
  [][\A cid \in Cids :
       /\ (Called("registerRequest", cid) /\ Registered(cid) /\ registerRequest(cid))
            => /\ lastCall' = AlreadyRegistered(cid)
               /\ UNCHANGED engineState
       /\ \A v \in Responses :
            (Called("matchResponse", cid) /\ ~Registered(cid) /\ matchResponse(cid, v))
              => /\ lastCall' = NoPendingRequest("matchResponse", cid)
                 /\ UNCHANGED engineState
       /\ \A e \in Reasons :
            (Called("rejectRequest", cid) /\ ~Registered(cid) /\ rejectRequest(cid, e))
              => /\ lastCall' = NoPendingRequest("rejectRequest", cid)
                 /\ UNCHANGED engineState]_vars

(* A duplicate registerRequest was refused while the timer of the pending  *)
(* entry had been running, and an earlier registration stays settled       *)
C28_Witness ==
  /\ lastCall = AlreadyRegistered(lastCall.cid)
  /\ lastCall.cid \in Cids
  /\ \E r \in Regs :
       /\ Live(r) /\ regCid[r] = lastCall.cid
       /\ timers[r].state = "armed" /\ timers[r].elapsed = 1
       /\ pendingRequests[cidToKey(lastCall.cid)].promise = r
  /\ \E q \in Regs : Created(q) /\ terminal[q] = "reject" /\ Settled(q)

(* The id has had a registration and every one of them is terminated *)
Terminated(cid) ==
  RegsOf(cid) # {} /\ \A r \in RegsOf(cid) : terminal[r] # "none"

(* C29: once the entry of an id is terminated, registerRequest on the id   *)
(* returns a handle that is new, stores a fresh entry and arms a new       *)
(* timer for the full delay, and changes no earlier handle or timer; a     *)
(* later matchResponse on the id fulfils the new handle and no other.      *)
C29_ReRegister ==
  [][\A cid \in Cids :
       /\ (Terminated(cid) /\ Called("registerRequest", cid) /\ registerRequest(cid))
            => /\ lastCall' = Returned("registerRequest", cid, nextReg)
               /\ ~Created(nextReg)
               /\ pendingRequests' = MapSet(pendingRequests, cidToKey(cid),
                                       [promise |-> nextReg, timeoutHandle |-> nextReg])
               /\ promises'[nextReg] = NewPromise
               /\ timers'[nextReg].state = "armed"
               /\ timers'[nextReg].delay = timeoutMs
               /\ timers'[nextReg].elapsed = 0
               /\ \A r \in Regs : Created(r) =>
                    /\ promises'[r] = promises[r]
                    /\ timers'[r] = timers[r]
                    /\ terminal'[r] = terminal[r]
       /\ \A v \in Responses :
            (Cardinality(RegsOf(cid)) > 1 /\ Called("matchResponse", cid) /\ Registered(cid)
               /\ matchResponse(cid, v))
              => /\ promises'[Latest(cid)] = Fulfilled(v)
                 /\ \A r \in Regs \ {Latest(cid)} : promises'[r] = promises[r]]_vars

(* An id was registered, timed out, registered again and then matched: the *)
(* first handle is still rejected with the timeout error                   *)
C29_Witness ==
  \E r1, r2 \in Regs :
    /\ r1 < r2 /\ Created(r2) /\ regCid[r1] = regCid[r2]
    /\ terminal[r1] = "timeout" /\ promises[r1] = Rejected(TimeoutError)
    /\ terminal[r2] = "match" /\ promises[r2].state = "fulfilled"
    /\ lastCall.op = "matchResponse" /\ lastCall.outcome = "ok"

(* C30: a Notification never carries a correlation id: every envelope      *)
(* decodeRpcEnvelope returns with tag N has no cid property, whatever      *)
(* other properties the JSON object of the input has.                      *)
C30_NotificationWithoutCid ==
  (parsed # NotCalled /\ parsed.ok /\ HasTag(parsed.value, {T_N}))
    => ~In(K_cid, parsed.value)

====
